---- MODULE Spec2Model ----
(***************************************************************************)
(* Flow execution state machine of the windmill worker                     *)
(* (backend/windmill-worker/src/worker_flow.rs): the completion reconciler *)
(* update_flow_status_after_job_completion, the planner                    *)
(* handle_flow / push_next_flow_job / jump_to_next_step /                  *)
(* compute_next_flow_transform, the suspension gate and the in-progress    *)
(* marker, over a model of the queue, completed_job and resume_job tables. *)
(***************************************************************************)
EXTENDS Integers, Sequences, FiniteSets, TLC

(***************************************************************************)
(* Bounds of the model.                                                    *)
(***************************************************************************)
\* number of job rows (flows and their children) ever pushed in one run
MaxJobs == 5
\* number of resume_job rows ever inserted in one run
MaxResumes == 2

(***************************************************************************)
(* Option<T> is a sequence of length at most one.                          *)
(***************************************************************************)
None == <<>>
Some(x) == <<x>>
IsSome(o) == Len(o) > 0
IsNone(o) == Len(o) = 0
Unwrap(o) == o[1]

\* Uuid::nil(), and the absent parent_job
NilJob == 0

(***************************************************************************)
(* serde_json::Value, as far as the driver looks into it.                  *)
(*   t = "null"    n unused                                                *)
(*   t = "leaf"    result of the script job n                              *)
(*   t = "error"   error object of the script job n                        *)
(*   t = "array"   a = the elements                                        *)
(*   t = "object"  a = <<>> or <<v>>: the object's previous_result key, if *)
(*                 any; n = iter.index + 1 of an iteration's args, else 0  *)
(***************************************************************************)
Val(t, n, a) == [t |-> t, n |-> n, a |-> a]
Null == Val("null", 0, <<>>)
EmptyObject == Val("object", 0, <<>>)
EmptyArray == Val("array", 0, <<>>)
TimedOutResult == Val("error", 0, <<>>)

\* the flattening as it would be if it handed the value on as it is: the
\* fault C18_FlattenInInputTransforms has to detect
flatten_previous_result_unchanged(last_result) == last_result

\* worker_flow.rs: flatten_previous_result
flatten_previous_result(last_result) ==
    IF last_result.t = "object" /\ Len(last_result.a) > 0
    THEN last_result.a[1]
    ELSE last_result

(***************************************************************************)
(* The flow definition: FlowValue, FlowModule, FlowModuleValue.            *)
(*   kind      "script" (Identity, Script and RawScript plan alike),       *)
(*             "forloop", "branchone" or "branchall"                       *)
(*   retry     the Retry policy, reduced to its number of attempts         *)
(*   suspend   suspend.required_events, 0 when there is no suspend         *)
(*   stop      stop_after_if.expr: "none", or what the expression yields:  *)
(*             "true", "false", or "bad" (not a boolean)                   *)
(*   iterator  number of elements the iterator yields, -1: not an array    *)
(*   branches  branchone: <<[expr, modules]>>, expr as stop;               *)
(*             branchall: <<[modules, skip_failure]>>                      *)
(***************************************************************************)
\* Retry::default(): no attempts
RetryNone == [attempts |-> 0, seconds |-> 0]

FlowModule(kind) ==
    [id |-> 0, kind |-> kind, retry |-> RetryNone, suspend |-> 0, sleep |-> FALSE,
     stop |-> "none", skip_if_stopped |-> FALSE,
     iterator |-> 0, skip_failures |-> FALSE, modules |-> <<>>,
     branches |-> <<>>, default |-> <<>>]

\* the modules of a flow carry their position as id
WithIds(ms) == [k \in 1..Len(ms) |-> [ms[k] EXCEPT !.id = k]]

FailureId == 99

FlowValue(ms, fm, sw) ==
    [modules |-> WithIds(ms),
     failure_module |-> IF IsSome(fm) THEN Some([Unwrap(fm) EXCEPT !.id = FailureId]) ELSE None,
     same_worker |-> sw]

\* the payload of a job that is a script and no flow
NoFlow ==
    [modules |-> <<>>, failure_module |-> None, same_worker |-> FALSE,
     script |-> TRUE]

(***************************************************************************)
(* Retry (windmill_common::flows): interval(n) is Some for the first       *)
(* `attempts` failures, has_attempts says whether there is any.            *)
(* MAX_RETRY_ATTEMPTS stands for windmill_common's constant, with a value  *)
(* small enough for a run of MaxJobs jobs to pass it.                      *)
(***************************************************************************)
MAX_RETRY_ATTEMPTS == 1

\* windmill_common's longest delay of a retry, in the model's seconds
MAX_RETRY_INTERVAL == 2

RetryInterval(retry, previous_attempts) ==
    IF previous_attempts < retry.attempts THEN Some(retry.seconds) ELSE None

has_attempts(retry) == retry.attempts /= 0

\* std::cmp::min
Min(a, b) == IF a <= b THEN a ELSE b

\* next_retry as it would be without the clamp of the delay: the fault
\* C32_NextRetry has to detect
next_retry_unclamped(retry, status) ==
    IF status.fail_count <= MAX_RETRY_ATTEMPTS
       /\ IsSome(RetryInterval(retry, status.fail_count))
    THEN Some([fail_count |-> status.fail_count + 1,
               retry_in |-> Unwrap(RetryInterval(retry, status.fail_count))])
    ELSE None

\* worker_flow.rs: next_retry: the new fail_count and the delay
next_retry(retry, status) ==
    IF status.fail_count <= MAX_RETRY_ATTEMPTS
       /\ IsSome(RetryInterval(retry, status.fail_count))
    THEN Some([fail_count |-> status.fail_count + 1,
               retry_in |-> Min(Unwrap(RetryInterval(retry, status.fail_count)),
                                MAX_RETRY_INTERVAL)])
    ELSE None

(***************************************************************************)
(* FlowStatus, FlowStatusModule, RetryStatus (windmill_common).            *)
(***************************************************************************)
StatusModule(type, id, job) ==
    [type |-> type, id |-> id, job |-> job,
     iterator |-> None, branchall |-> None, branch_chosen |-> None,
     flow_jobs |-> None, count |-> 0, approvers |-> <<>>]

WaitingForPriorSteps(id) == StatusModule("WaitingForPriorSteps", id, NilJob)
WaitingForExecutor(id, job) == StatusModule("WaitingForExecutor", id, job)
WaitingForEvents(id, count, job) ==
    [StatusModule("WaitingForEvents", id, job) EXCEPT !.count = count]

RetryDefault == [fail_count |-> 0, failed_jobs |-> <<>>, previous_result |-> None]

\* FlowStatus::new, built by the queue's push for a flow payload
FlowStatusNew(f) ==
    [step |-> 0,
     modules |-> [k \in 1..Len(f.modules) |-> WaitingForPriorSteps(f.modules[k].id)],
     failure_module |-> WaitingForPriorSteps(
         IF IsSome(f.failure_module) THEN Unwrap(f.failure_module).id ELSE FailureId),
     retry |-> RetryDefault]

(***************************************************************************)
(* The database, as one value: db = [queue, completed, resume_job,         *)
(* nextId, calls].  queue and completed map the job ids in use to rows,    *)
(* resume_job maps a job id to its resume rows in created_at order.        *)
(* calls is the history of the committed reconciliations.                  *)
(***************************************************************************)
\* a call's outcome: the database it leaves and whether it returned Ok
Ok(db) == [db |-> db, ok |-> TRUE]
Err(db) == [db |-> db, ok |-> FALSE]

Restrict(f, S) == [x \in S |-> f[x]]

\* UPDATE queue SET ... WHERE id = flow
SetRow(db, flow, row) == [db EXCEPT !.queue = (flow :> row) @@ db.queue]

SetStatus(db, flow, status) ==
    SetRow(db, flow, [db.queue[flow] EXCEPT !.flow_status = status])

\* the snapshot a statement leaves when it writes a module status or step:
\* the step persisted, the entry written (FailureEntry: failure_module),
\* the type written and the writer
FailureEntry == 0 - 1
Snapshot(status, at, wrote, by) ==
    [step |-> status.step, at |-> at, wrote |-> wrote, by |-> by,
     retry |-> status.retry]

\* a statement that writes a module status, with the step or without
WriteStatus(db, flow, status, at, wrote, by) ==
    SetRow(db, flow, [db.queue[flow] EXCEPT
                        !.flow_status = status,
                        !.history = Append(@, Snapshot(status, at, wrote, by))])

\* JSONB_SET(flow_status, ARRAY['modules', i], v): an index past the end of
\* the array appends the value
JsonbSetModule(modules, i, v) ==
    IF i < Len(modules) THEN [modules EXCEPT ![i + 1] = v] ELSE Append(modules, v)

\* windmill_queue::push: a new row, for a script or for a raw flow
push(db, raw_flow, args, scheduled_for, schedule_path, parent_job, same_worker, step) ==
    LET uuid == db.nextId
        row == [kind |-> IF raw_flow = NoFlow THEN "script" ELSE "flow",
                raw_flow |-> raw_flow,
                flow_status |-> FlowStatusNew(raw_flow),
                args |-> args,
                scheduled_for |-> scheduled_for,
                schedule_path |-> schedule_path,
                script_path |-> TRUE,
                is_flow_step |-> parent_job /= NilJob,
                parent_job |-> parent_job,
                canceled |-> FALSE, running |-> FALSE,
                suspend |-> 0, suspend_until |-> FALSE,
                same_worker |-> same_worker,
                step |-> step,
                history |-> <<Snapshot(FlowStatusNew(raw_flow), 0,
                                       "WaitingForPriorSteps", "push")>>]
    IN  [db EXCEPT !.queue = (uuid :> row) @@ db.queue, !.nextId = uuid + 1]

\* jobs::add_completed_job: the row moves from queue to completed_job
add_completed_job(db, id, job, success, skipped, result, logs) ==
    [db EXCEPT
        !.queue = Restrict(db.queue, DOMAIN db.queue \ {id}),
        !.completed = (id :> [success |-> success, skipped |-> skipped,
                              result |-> result, logs |-> logs,
                              kind |-> job.kind,
                              raw_flow |-> job.raw_flow,
                              history |-> job.history,
                              parent_job |-> job.parent_job,
                              args |-> job.args,
                              scheduled_for |-> job.scheduled_for,
                              schedule_path |-> job.schedule_path,
                              is_flow_step |-> job.is_flow_step,
                              step |-> job.step,
                              same_worker |-> job.same_worker,
                              canceled |-> job.canceled,
                              flow_status |-> job.flow_status]) @@ db.completed]

\* jobs::add_completed_job_error: a failed completion carrying the error
add_completed_job_error(db, id, job, logs) ==
    add_completed_job(db, id, job, FALSE, FALSE, Val("error", id, <<>>), logs)

\* worker_flow.rs: compute_bool_from_expr, by what the expression yields
compute_bool_from_expr(expr) ==
    [ok |-> expr \in {"true", "false"}, v |-> expr = "true"]

\* worker_flow.rs: compute_skip_loop_failures, unwrap_or(false) included
compute_skip_loop_failures(job, step) ==
    IF step < Len(job.raw_flow.modules)
    THEN job.raw_flow.modules[step + 1].skip_failures
    ELSE FALSE

\* worker_flow.rs: compute_skip_branchall_failure, unwrap_or(false) included
compute_skip_branchall_failure(job, step, branch) ==
    IF step < Len(job.raw_flow.modules)
       /\ job.raw_flow.modules[step + 1].kind = "branchall"
       /\ branch < Len(job.raw_flow.modules[step + 1].branches)
    THEN job.raw_flow.modules[step + 1].branches[branch + 1].skip_failure
    ELSE FALSE

\* worker_flow.rs: has_failure_module
has_failure_module(job) == IsSome(job.raw_flow.failure_module)

Range(seq) == {seq[k] : k \in 1..Len(seq)}

\* ORDER BY args->'iter'->'index'; rows with equal keys come in the order
\* the database happens to produce, tie
Before(db, tie, j1, j2) ==
    LET k1 == db.completed[j1].args.n
        k2 == db.completed[j2].args.n
    IN  \/ k1 < k2
        \/ k1 = k2 /\ IF tie = "asc" THEN j1 < j2 ELSE j1 > j2

RECURSIVE OrderedResults(_, _, _)
OrderedResults(db, tie, S) ==
    IF S = {} THEN <<>>
    ELSE LET first == CHOOSE j \in S : \A o \in S \ {j} : Before(db, tie, j, o)
         IN  <<db.completed[first].result>> \o OrderedResults(db, tie, S \ {first})

\* SELECT result FROM completed_job WHERE id = ANY(jobs) ORDER BY ...
CollectResults(db, tie, jobs) ==
    Val("array", 0, OrderedResults(db, tie, Range(jobs) \cap DOMAIN db.completed))

\* needs_resume as it would be if the previous module never asked for
\* events: the fault C13_GateHolds has to detect
needs_resume_never_asking(flow, status) == None

\* worker_flow.rs: needs_resume. Some([required_events, job]) or None.
needs_resume(flow, status) ==
    LET prev == status.step - 1 IN
    IF status.step = 0 \/ prev >= Len(flow.modules) THEN None
    ELSE IF flow.modules[prev + 1].suspend = 0 THEN None
    ELSE IF prev >= Len(status.modules) THEN None
    ELSE IF status.modules[prev + 1].type = "Success"
    THEN Some([required_events |-> flow.modules[prev + 1].suspend,
               job |-> status.modules[prev + 1].job])
    ELSE None

(***************************************************************************)
(* NextStatus and NextFlowTransform, as one record:                        *)
(*   ok = FALSE            the planner returned an error                   *)
(*   empty = TRUE          NextFlowTransform::EmptyInnerFlows              *)
(*   otherwise             Continue(payload, next), payload = NoFlow for   *)
(*                         a script, the inner FlowValue for a raw flow    *)
(***************************************************************************)
BranchDefault == [type |-> "default", branch |-> 0]
BranchChosen(b) == [type |-> "branch", branch |-> b]

NextStep == [kind |-> "NextStep", index |-> 0, itered |-> <<>>, flow_jobs |-> <<>>,
             branch |-> BranchDefault, status |-> None]
TransformErr == [ok |-> FALSE, empty |-> FALSE, payload |-> NoFlow, next |-> NextStep]
EmptyInnerFlows == [ok |-> TRUE, empty |-> TRUE, payload |-> NoFlow, next |-> NextStep]
Continue(payload, next) == [ok |-> TRUE, empty |-> FALSE, payload |-> payload, next |-> next]

InnerFlow(flow, modules) ==
    [modules |-> modules, failure_module |-> flow.failure_module,
     same_worker |-> flow.same_worker]

\* the array an iterator expression yields
Itered(n) == [k \in 1..n |-> Val("item", k, <<>>)]

\* the first branch whose predicate is true, as the loop over
\* branches.iter().enumerate() finds it; ok = FALSE if a predicate evaluated
\* on the way is not a boolean
RECURSIVE ChooseBranch(_, _)
ChooseBranch(branches, k) ==
    IF k > Len(branches) THEN [ok |-> TRUE, branch |-> BranchDefault]
    ELSE LET pred == compute_bool_from_expr(branches[k].expr) IN
         IF ~pred.ok THEN [ok |-> FALSE, branch |-> BranchDefault]
         ELSE IF pred.v THEN [ok |-> TRUE, branch |-> BranchChosen(k - 1)]
         ELSE ChooseBranch(branches, k + 1)

\* the first iteration as it would be if the iterator's array were never
\* looked at: the fault C25_IteratorIndexInRange has to detect
first_iteration_unguarded(itered) == Some(0)

\* if let Some(first) = itered.first(): index 0 of an array that has one
first_iteration(itered) == IF Len(itered) > 0 THEN Some(0) ELSE None

\* worker_flow.rs: compute_next_flow_transform
compute_next_flow_transform(flow, module, status_module, last_result) ==
    CASE module.kind = "script" -> Continue(NoFlow, NextStep)
      [] module.kind = "forloop" ->
            IF status_module.type = "WaitingForPriorSteps"
            THEN IF module.iterator < 0 THEN TransformErr
                 ELSE IF IsNone(first_iteration(Itered(module.iterator)))
                 THEN EmptyInnerFlows
                 ELSE Continue(InnerFlow(flow, module.modules),
                               [NextStep EXCEPT !.kind = "NextLoopIteration",
                                                !.index = Unwrap(first_iteration(
                                                              Itered(module.iterator))),
                                                !.itered = Itered(module.iterator),
                                                !.flow_jobs = <<>>])
            ELSE IF status_module.type = "InProgress"
                    /\ IsSome(status_module.iterator)
                    /\ IsSome(status_module.flow_jobs)
            THEN LET it == Unwrap(status_module.iterator) IN
                 IF it.index + 1 >= Len(it.itered) THEN TransformErr
                 ELSE Continue(InnerFlow(flow, module.modules),
                               [NextStep EXCEPT !.kind = "NextLoopIteration",
                                                !.index = it.index + 1,
                                                !.itered = it.itered,
                                                !.flow_jobs = Unwrap(status_module.flow_jobs)])
            ELSE TransformErr
      [] module.kind = "branchone" ->
            IF status_module.type /= "WaitingForPriorSteps" THEN TransformErr
            ELSE LET chosen == ChooseBranch(module.branches, 1) IN
                 IF ~chosen.ok THEN TransformErr
                 ELSE Continue(
                        InnerFlow(flow,
                            IF chosen.branch.type = "branch"
                            THEN module.branches[chosen.branch.branch + 1].modules
                            ELSE module.default),
                        [NextStep EXCEPT !.kind = "BranchChosen",
                                         !.branch = chosen.branch])
      [] module.kind = "branchall" ->
            IF status_module.type = "WaitingForPriorSteps"
            THEN IF Len(module.branches) = 0 THEN EmptyInnerFlows
                 ELSE Continue(InnerFlow(flow, module.branches[1].modules),
                               [NextStep EXCEPT
                                   !.kind = "NextBranchStep",
                                   !.status = Some([branch |-> 0,
                                                    previous_result |-> last_result,
                                                    len |-> Len(module.branches)]),
                                   !.flow_jobs = <<>>])
            ELSE IF status_module.type = "InProgress"
                    /\ IsSome(status_module.branchall)
                    /\ IsSome(status_module.flow_jobs)
            THEN LET ba == Unwrap(status_module.branchall) IN
                 IF ba.branch + 1 >= Len(module.branches) THEN TransformErr
                 ELSE Continue(InnerFlow(flow, module.branches[ba.branch + 2].modules),
                               [NextStep EXCEPT
                                   !.kind = "NextBranchStep",
                                   !.status = Some([ba EXCEPT !.branch = ba.branch + 1]),
                                   !.flow_jobs = Unwrap(status_module.flow_jobs)])
            ELSE TransformErr

(***************************************************************************)
(* The pieces of update_flow_status_after_job_completion.                  *)
(***************************************************************************)
\* status.modules.get(step), or the failure module's status past the end
active_status_module(status) ==
    IF status.step < Len(status.modules) THEN status.modules[status.step + 1]
    ELSE status.failure_module

\* flow.modules.get(step), or the failure module past the end
active_module(flow, step) ==
    IF step < Len(flow.modules) THEN Some(flow.modules[step + 1])
    ELSE flow.failure_module

\* skip_loop_failures: asked only of a for-each in progress
loop_failures_skipped(old_job, module_status) ==
    IF module_status.type = "InProgress" /\ IsSome(module_status.iterator)
    THEN compute_skip_loop_failures(old_job, old_job.flow_status.step)
    ELSE FALSE

\* skip_branch_failure: asked only of a branch-all in progress
branch_failure_skipped(old_job, module_status) ==
    IF module_status.type = "InProgress" /\ IsSome(module_status.branchall)
    THEN compute_skip_branchall_failure(old_job, old_job.flow_status.step,
                                        Unwrap(module_status.branchall).branch)
    ELSE FALSE

\* the match as it would be without the increment of the step counter on a
\* Success: the fault C9_StepNeverDecreases has to detect
next_module_status_keeping_step(old_step, module_status, success, skip_loop_failures, skip_branch_failure, job_id_for_status) ==
    LET in_progress == module_status.type = "InProgress"
        flow_jobs == IF in_progress THEN module_status.flow_jobs ELSE None
        branch_chosen == IF in_progress THEN module_status.branch_chosen ELSE None
        more ==
            \/ /\ in_progress /\ IsSome(module_status.iterator)
               /\ Unwrap(module_status.iterator).index + 1
                      < Len(Unwrap(module_status.iterator).itered)
               /\ (success \/ skip_loop_failures)
            \/ /\ in_progress /\ IsSome(module_status.branchall)
               /\ Unwrap(module_status.branchall).branch
                      < Unwrap(module_status.branchall).len - 1
               /\ (success \/ skip_branch_failure)
        succeeded ==
            success \/ (IsSome(flow_jobs) /\ (skip_loop_failures \/ skip_branch_failure))
    IN  [step_counter |-> old_step,
         new_status |->
            IF more THEN module_status
            ELSE [StatusModule(IF succeeded THEN "Success" ELSE "Failure",
                               module_status.id, job_id_for_status)
                    EXCEPT !.flow_jobs = flow_jobs, !.branch_chosen = branch_chosen]]

\* the match on module_status: the step counter and the new module status
next_module_status(old_step, module_status, success, skip_loop_failures, skip_branch_failure, job_id_for_status) ==
    LET in_progress == module_status.type = "InProgress"
        more_iterations ==
            /\ in_progress /\ IsSome(module_status.iterator)
            /\ Unwrap(module_status.iterator).index + 1
                   < Len(Unwrap(module_status.iterator).itered)
            /\ (success \/ skip_loop_failures)
        more_branches ==
            /\ in_progress /\ IsSome(module_status.branchall)
            /\ Unwrap(module_status.branchall).branch
                   < Unwrap(module_status.branchall).len - 1
            /\ (success \/ skip_branch_failure)
        flow_jobs == IF in_progress THEN module_status.flow_jobs ELSE None
        branch_chosen == IF in_progress THEN module_status.branch_chosen ELSE None
    IN  IF more_iterations \/ more_branches
        THEN [step_counter |-> old_step, new_status |-> module_status]
        ELSE IF success \/ (IsSome(flow_jobs) /\ (skip_loop_failures \/ skip_branch_failure))
        THEN [step_counter |-> old_step + 1,
              new_status |->
                 [StatusModule("Success", module_status.id, job_id_for_status)
                    EXCEPT !.flow_jobs = flow_jobs, !.branch_chosen = branch_chosen]]
        ELSE [step_counter |-> old_step,
              new_status |->
                 [StatusModule("Failure", module_status.id, job_id_for_status)
                    EXCEPT !.flow_jobs = flow_jobs, !.branch_chosen = branch_chosen]]

\* the write as it would be without the UPDATE of the failure-module
\* phase: the fault C34_FailurePhaseFrame has to detect
write_new_status_into_modules(old_status, new_status, step_counter, stop_early_override) ==
    [old_status EXCEPT
        !.modules = JsonbSetModule(old_status.modules, old_status.step, new_status),
        !.step = step_counter]

\* the three UPDATEs that persist the new module status: under a
\* stop_early_override, in the failure-module phase, and otherwise
write_new_status(old_status, new_status, step_counter, stop_early_override) ==
    IF IsSome(stop_early_override)
    THEN [old_status EXCEPT
            !.modules = JsonbSetModule(old_status.modules, old_status.step, new_status),
            !.step = step_counter]
    ELSE IF old_status.step >= Len(old_status.modules)
    THEN [old_status EXCEPT !.failure_module = new_status]
    ELSE [old_status EXCEPT
            !.modules = JsonbSetModule(old_status.modules, old_status.step, new_status),
            !.step = step_counter]

\* the evaluation as it would be if the child's success were not asked
\* for: the fault C33_StopEarlyOnlyOnSuccess has to detect
stop_after_if_whatever_the_outcome(modules, step, success) ==
    IF step < Len(modules) /\ modules[step + 1].stop /= "none"
    THEN [ok |-> compute_bool_from_expr(modules[step + 1].stop).ok,
          stop_early |-> compute_bool_from_expr(modules[step + 1].stop).v,
          skip_if_stop_early |-> modules[step + 1].skip_if_stopped]
    ELSE [ok |-> TRUE, stop_early |-> FALSE, skip_if_stop_early |-> FALSE]

\* the module's stop_after_if as the third UPDATE returns and evaluates it;
\* ok = FALSE when the expression does not yield a boolean
stop_after_if(modules, step, success) ==
    IF step < Len(modules) /\ modules[step + 1].stop /= "none"
    THEN [ok |-> success => compute_bool_from_expr(modules[step + 1].stop).ok,
          stop_early |-> success /\ compute_bool_from_expr(modules[step + 1].stop).v,
          skip_if_stop_early |-> modules[step + 1].skip_if_stopped]
    ELSE [ok |-> TRUE, stop_early |-> FALSE, skip_if_stop_early |-> FALSE]

\* (stop_early, skip_if_stop_early) on the three ways of the write
stop_early_decision(old_job, success, stop_early_override) ==
    IF IsSome(stop_early_override)
    THEN [ok |-> TRUE, stop_early |-> TRUE,
          skip_if_stop_early |-> Unwrap(stop_early_override)]
    ELSE IF old_job.flow_status.step >= Len(old_job.flow_status.modules)
    THEN [ok |-> TRUE, stop_early |-> FALSE, skip_if_stop_early |-> FALSE]
    ELSE stop_after_if(old_job.raw_flow.modules, old_job.flow_status.step, success)

\* the result handed on: the results of flow_jobs once the module is Success
aggregate_result(db, tie, new_status, result) ==
    IF new_status.type = "Success" /\ IsSome(new_status.flow_jobs)
    THEN CollectResults(db, tie, Unwrap(new_status.flow_jobs))
    ELSE result

\* flow_status - 'retry' once the module is Success
retry_cleared(written, new_status) ==
    IF new_status.type = "Success" THEN [written EXCEPT !.retry = RetryDefault]
    ELSE written

\* the flow's row as the transaction leaves it
persisted_row(old_job, status, at, wrote) ==
    [old_job EXCEPT
        !.flow_status = status,
        !.history = Append(@, Snapshot(status, at, wrote, "reconciler"))]

\* the retry policy of the active module, the default when there is none
module_retry(flow, step) ==
    IF IsSome(active_module(flow, step)) THEN Unwrap(active_module(flow, step)).retry
    ELSE RetryNone

\* the match as it would be without the arm for a canceled flow: the fault
\* C5_CancellationDominates has to detect
should_continue_flow_ignoring_canceled(stop_early, canceled, success, unrecoverable, skip_failure, is_last_step, retry_available, failure_module_defined) ==
    IF stop_early THEN FALSE
    ELSE IF success THEN ~is_last_step
    ELSE IF unrecoverable THEN FALSE
    ELSE IF skip_failure THEN ~is_last_step
    ELSE IF retry_available THEN TRUE
    ELSE failure_module_defined

\* the match that decides whether the flow goes on
should_continue_flow(stop_early, canceled, success, unrecoverable, skip_failure, is_last_step, retry_available, failure_module_defined) ==
    IF stop_early THEN FALSE
    ELSE IF canceled THEN FALSE
    ELSE IF success THEN ~is_last_step
    ELSE IF unrecoverable THEN FALSE
    ELSE IF skip_failure THEN ~is_last_step
    ELSE IF retry_available THEN TRUE
    ELSE failure_module_defined

\* the completed-job record of a flow that does not go on
flow_terminated(db, flow, flow_job, success, stop, result) ==
    IF flow_job.canceled
    THEN add_completed_job_error(db, flow, flow_job, "Flow job canceled")
    ELSE add_completed_job(db, flow, flow_job, success,
                           stop.stop_early /\ stop.skip_if_stop_early, result,
                           IF stop.stop_early THEN "Flow job stopped early"
                           ELSE "Flow job completed")

\* the outcome as it would be if an error of handle_flow left the flow in
\* the queue: the fault C21_ChainingErrorCompletesFlow has to detect
flow_chained_leaving_flow(chained, flow, flow_job) ==
    [db |-> chained.db, done |-> ~chained.ok]

\* the outcome of handle_flow for a flow that goes on: an error completes it
flow_chained(chained, flow, flow_job) ==
    IF chained.ok THEN [db |-> chained.db, done |-> FALSE]
    ELSE [db |-> add_completed_job_error(chained.db, flow, flow_job,
                                         "Unexpected error during flow chaining"),
          done |-> TRUE]

\* the schedule is armed again by the reconciliation of the first step of
\* a scheduled job that is no step of a flow
schedule_again(old_status, flow_job) ==
    /\ old_status.step = 0
    /\ ~flow_job.is_flow_step
    /\ flow_job.schedule_path
    /\ flow_job.script_path

\* the stop_early_override handed to the parent's reconciliation
parent_stop_early_override(stop_early, skip_if_stop_early) ==
    IF stop_early THEN Some(skip_if_stop_early) ELSE None

RECURSIVE update_flow_status_after_job_completion(_, _, _, _, _, _, _, _)
RECURSIVE handle_flow(_, _, _, _, _)
RECURSIVE push_next_flow_job(_, _, _, _, _, _)
RECURSIVE jump_to_next_step(_, _, _, _, _, _, _)

(***************************************************************************)
(* worker_flow.rs: update_flow_status_after_job_completion, in the order   *)
(* of its statements.  req holds the arguments of the call.  Everything up *)
(* to tx.commit() is one transaction: an error before it leaves the        *)
(* database as it was.                                                     *)
(***************************************************************************)
\* the end: the call goes to the history, and a flow that is done and has a
\* parent is reported to it
reconcile_parent(req, old_job, module_status, next, stop, flow_job, result, continue, at, outcome) ==
    LET recorded ==
            [outcome.db EXCEPT !.calls = @ \cup
                {[flow |-> req.flow, child |-> req.job_id_for_status,
                  success |-> req.success, unrecoverable |-> req.unrecoverable,
                  override |-> req.stop_early_override,
                  canceled |-> flow_job.canceled,
                  step |-> old_job.flow_status.step,
                  len |-> Len(old_job.flow_status.modules),
                  before |-> module_status, wrote |-> next.new_status,
                  stop_early |-> stop.stop_early,
                  skip_if_stop_early |-> stop.skip_if_stop_early,
                  continue |-> continue, done |-> outcome.done, at |-> at,
                  after |-> outcome.db.nextId,
                  retry |-> old_job.flow_status.retry,
                  schedule_again |-> schedule_again(old_job.flow_status, flow_job),
                  result |-> result]}]
    IN  IF outcome.done /\ flow_job.parent_job /= NilJob
        THEN update_flow_status_after_job_completion(
                 recorded, flow_job.parent_job, req.flow, req.success, result, FALSE,
                 parent_stop_early_override(stop.stop_early, stop.skip_if_stop_early),
                 req.tie)
        ELSE Ok(recorded)

\* after the commit: the flow terminates, or handle_flow plans what follows
reconcile_commit(db, req, old_job, module_status, next, stop, flow_job, result, continue) ==
    reconcile_parent(req, old_job, module_status, next, stop, flow_job, result,
        continue, db.nextId,
        IF continue
        THEN flow_chained(
                 handle_flow(SetRow(db, req.flow, flow_job), req.flow, flow_job,
                             result, req.tie),
                 req.flow, flow_job)
        ELSE [db |-> flow_terminated(SetRow(db, req.flow, flow_job), req.flow,
                                     flow_job, req.success, stop, result),
              done |-> TRUE])

\* the write as it would be if the status written before a failing
\* stop_after_if stayed in the row: the fault C39_ErrorLeavesNoTrace has to
\* detect
reconcile_write_without_rollback(db, req, old_job, module_status, skip_failure, next, stop) ==
    IF ~stop.ok
    THEN Err(SetRow(db, req.flow,
            persisted_row(old_job,
                write_new_status(old_job.flow_status, next.new_status,
                                 next.step_counter, req.stop_early_override),
                old_job.flow_status.step, next.new_status.type)))
    ELSE reconcile_commit(db, req, old_job, module_status, next, stop,
            persisted_row(old_job,
                retry_cleared(
                    write_new_status(old_job.flow_status, next.new_status,
                                     next.step_counter, req.stop_early_override),
                    next.new_status),
                IF IsSome(req.stop_early_override)
                   \/ old_job.flow_status.step < Len(old_job.flow_status.modules)
                THEN old_job.flow_status.step ELSE FailureEntry,
                next.new_status.type),
            aggregate_result(db, req.tie, next.new_status, req.result),
            should_continue_flow(
                stop.stop_early, old_job.canceled, req.success, req.unrecoverable,
                skip_failure,
                ~(next.step_counter < Len(old_job.flow_status.modules)),
                IsSome(next_retry(module_retry(old_job.raw_flow,
                                               old_job.flow_status.step),
                                  old_job.flow_status.retry)),
                has_failure_module(old_job)))

\* the write of the new status, the result and the decision to go on
reconcile_write(db, req, old_job, module_status, skip_failure, next, stop) ==
    IF ~stop.ok THEN Err(db)
    ELSE reconcile_commit(db, req, old_job, module_status, next, stop,
            persisted_row(old_job,
                retry_cleared(
                    write_new_status(old_job.flow_status, next.new_status,
                                     next.step_counter, req.stop_early_override),
                    next.new_status),
                IF IsSome(req.stop_early_override)
                   \/ old_job.flow_status.step < Len(old_job.flow_status.modules)
                THEN old_job.flow_status.step ELSE FailureEntry,
                next.new_status.type),
            aggregate_result(db, req.tie, next.new_status, req.result),
            should_continue_flow(
                stop.stop_early, old_job.canceled, req.success, req.unrecoverable,
                skip_failure,
                ~(next.step_counter < Len(old_job.flow_status.modules)),
                IsSome(next_retry(module_retry(old_job.raw_flow,
                                               old_job.flow_status.step),
                                  old_job.flow_status.retry)),
                has_failure_module(old_job)))

\* the status of the active module and what the completed child makes of it
reconcile_module(db, req, old_job, module_status) ==
    reconcile_write(db, req, old_job, module_status,
        branch_failure_skipped(old_job, module_status)
            \/ loop_failures_skipped(old_job, module_status),
        next_module_status(old_job.flow_status.step, module_status, req.success,
                           loop_failures_skipped(old_job, module_status),
                           branch_failure_skipped(old_job, module_status),
                           req.job_id_for_status),
        stop_early_decision(old_job, req.success, req.stop_early_override))

update_flow_status_after_job_completion(db, flow, job_id_for_status, success, result, unrecoverable, stop_early_override, tie) ==
    IF flow \notin DOMAIN db.queue THEN Err(db)
    ELSE reconcile_module(db,
            [flow |-> flow, job_id_for_status |-> job_id_for_status,
             success |-> success, result |-> result,
             unrecoverable |-> unrecoverable,
             stop_early_override |-> stop_early_override, tie |-> tie],
            db.queue[flow],
            active_status_module(db.queue[flow].flow_status))

\* worker_flow.rs: handle_flow
handle_flow(db, id, flow_job, last_result, tie) ==
    IF Len(flow_job.raw_flow.modules) = 0
    THEN update_flow_status_after_job_completion(
             db, id, NilJob, TRUE, EmptyObject, TRUE, None, tie)
    ELSE push_next_flow_job(db, id, flow_job, flow_job.flow_status,
                            flow_job.raw_flow, last_result)

\* the gate as it would be if too few events always parked the flow again:
\* the fault C6_SecondSuspensionTimesOut has to detect
suspension_gate_parking_again(status_type, received, required_events) ==
    IF received >= required_events THEN "run" ELSE "suspend"

\* the suspension gate's three ways: enough resume rows run the module, too
\* few park a module that was WaitingForPriorSteps, and too few on any
\* other status (it was already WaitingForEvents) is the timeout
suspension_gate(status_type, received, required_events) ==
    IF received >= required_events THEN "run"
    ELSE IF status_type = "WaitingForPriorSteps" THEN "suspend"
    ELSE "timeout"

\* the Approval rows written to modules[step - 1].approvers
Approvers(resumes) == [k \in 1..Len(resumes) |-> resumes[k].approver]

\* needs_resume is asked when the module waits for prior steps or for events
resume_needed(flow, status) ==
    IF active_status_module(status).type \in {"WaitingForPriorSteps", "WaitingForEvents"}
    THEN needs_resume(flow, status)
    ELSE None

\* SELECT ... FROM resume_job WHERE job = last ORDER BY created_at ASC
resume_rows(db, last) ==
    IF last \in DOMAIN db.resume_job THEN db.resume_job[last] ELSE <<>>

\* enough events: the approvers go to the previous module's status
approved(db, id, step, resumes) ==
    SetStatus(db, id,
        [db.queue[id].flow_status EXCEPT !.modules[step].approvers = Approvers(resumes)])

\* too few events: the module becomes WaitingForEvents and the row suspends
suspended(db, id, status_module, required_events, last, received) ==
    SetRow(db, id,
        [db.queue[id] EXCEPT
            !.flow_status =
                [@ EXCEPT !.modules =
                    JsonbSetModule(@, db.queue[id].flow_status.step,
                        WaitingForEvents(status_module.id, required_events, last))],
            !.history =
                Append(@, Snapshot(db.queue[id].flow_status,
                                   db.queue[id].flow_status.step,
                                   "WaitingForEvents", "suspend")),
            !.suspend = required_events - received,
            !.suspend_until = TRUE])

\* the seconds a module's sleep evaluates to
SleepSeconds == 1

\* let mut scheduled_for_o: the sleep of the module before the one at i
sleep_of_previous(flow, i) ==
    IF i >= 1 /\ i - 1 < Len(flow.modules) /\ flow.modules[i].sleep
    THEN Some(SleepSeconds) ELSE None

\* match &status_module: a retry of a failed module, the entry into the
\* failure module, or the module as it is; with the retry status to save
retry_match(flow, status, status_module, last_result) ==
    LET module == active_module(flow, status.step)
        retried ==
            IF status_module.type = "Failure"
            THEN next_retry(Unwrap(module).retry, status.retry)
            ELSE None
        first_run == [previous_result |-> Some(last_result),
                      fail_count |-> 0, failed_jobs |-> <<>>]
    IN  IF status_module.type = "Failure" /\ IsSome(retried)
        THEN [i |-> status.step, module |-> module,
              scheduled_for_o |-> Some(Unwrap(retried).retry_in),
              status_module |-> WaitingForPriorSteps(status_module.id),
              last_result |->
                  IF IsSome(status.retry.previous_result)
                  THEN Unwrap(status.retry.previous_result)
                  ELSE last_result,
              new_retry |->
                  Some([status.retry EXCEPT
                          !.fail_count = Unwrap(retried).fail_count,
                          !.failed_jobs = Append(@, status_module.job)])]
        ELSE IF status_module.type = "Failure"
        THEN [i |-> Len(flow.modules), module |-> flow.failure_module,
              scheduled_for_o |-> sleep_of_previous(flow, status.step),
              status_module |-> status.failure_module,
              last_result |-> last_result,
              new_retry |->
                  IF IsSome(flow.failure_module)
                     /\ has_attempts(Unwrap(flow.failure_module).retry)
                  THEN Some(first_run) ELSE None]
        ELSE [i |-> status.step, module |-> module,
              scheduled_for_o |-> sleep_of_previous(flow, status.step),
              status_module |-> status_module,
              last_result |-> last_result,
              new_retry |->
                  IF status_module.type = "WaitingForPriorSteps"
                     /\ has_attempts(Unwrap(module).retry)
                     /\ status.retry.fail_count = 0
                  THEN Some(first_run) ELSE None]

\* UPDATE queue SET flow_status = JSONB_SET(flow_status, ARRAY['retry'], $1)
retry_saved(db, id, new_retry) ==
    IF IsSome(new_retry)
    THEN SetStatus(db, id, [db.queue[id].flow_status EXCEPT !.retry = Unwrap(new_retry)])
    ELSE db

\* the args as they would be if every branch of a branch-all got the result
\* of the branch before it: the fault C28_BranchAllOrder has to detect
job_args_from_last_result(flow_job, module, next_status, last_result) ==
    LET args ==
            IF module.kind = "script"
            THEN Val("object", 0, <<flatten_previous_result(last_result)>>)
            ELSE flow_job.args
    IN  CASE next_status.kind = "NextLoopIteration" ->
                [args EXCEPT !.n = next_status.index + 1]
          [] next_status.kind \in {"BranchChosen", "NextBranchStep"} ->
                [args EXCEPT !.a = <<flatten_previous_result(last_result)>>]
          [] OTHER -> args

\* the args of the job pushed: the transformed input of a script, the flow's
\* args for an inner flow, merged with what the next status adds
job_args(flow_job, module, next_status, last_result) ==
    LET args ==
            IF module.kind = "script"
            THEN Val("object", 0, <<flatten_previous_result(last_result)>>)
            ELSE flow_job.args
    IN  CASE next_status.kind = "NextLoopIteration" ->
                [args EXCEPT !.n = next_status.index + 1]
          [] next_status.kind = "BranchChosen" ->
                [args EXCEPT !.a = <<flatten_previous_result(last_result)>>]
          [] next_status.kind = "NextBranchStep" ->
                [args EXCEPT !.a = <<flatten_previous_result(
                                        Unwrap(next_status.status).previous_result)>>]
          [] OTHER -> args

\* the condition as it would be if a sleeping module stayed on the worker:
\* the fault C35_SameWorkerHandOff has to detect
continue_on_same_worker_with_sleep(flow, module) ==
    flow.same_worker /\ module.suspend = 0

continue_on_same_worker(flow, module) ==
    flow.same_worker /\ module.suspend = 0 /\ ~module.sleep

\* same_worker_tx.send(uuid), after tx.commit(): an error when the receiver
\* of the channel is gone
same_worker_sent(db, id, uuid, continue) ==
    IF ~continue THEN Ok(db)
    ELSE [ok |-> db.same_worker_tx.open,
          db |-> [db EXCEPT !.same_worker_tx.sends =
                    Append(@, [job |-> uuid, ok |-> db.same_worker_tx.open,
                               committed |->
                                   /\ uuid \in DOMAIN db.queue
                                   /\ id \in DOMAIN db.queue
                                   /\ active_status_module(db.queue[id].flow_status).job
                                        = uuid])]]

\* the status as it would be if the job pushed for an iteration replaced the
\* list of the jobs instead of joining it: the fault C20_CompositeSuccess has
\* to detect
new_module_status_forgetting_jobs(next_status, id, uuid) ==
    CASE next_status.kind = "NextLoopIteration" ->
            [StatusModule("InProgress", id, uuid) EXCEPT
                !.iterator = Some([index |-> next_status.index,
                                   itered |-> next_status.itered]),
                !.flow_jobs = Some(<<uuid>>)]
      [] next_status.kind = "NextBranchStep" ->
            [StatusModule("InProgress", id, uuid) EXCEPT
                !.branchall = next_status.status,
                !.flow_jobs = Some(<<uuid>>)]
      [] next_status.kind = "BranchChosen" ->
            [StatusModule("InProgress", id, uuid) EXCEPT
                !.branch_chosen = Some(next_status.branch)]
      [] OTHER -> WaitingForExecutor(id, uuid)

\* the status of the module whose job uuid was pushed
new_module_status(next_status, id, uuid) ==
    CASE next_status.kind = "NextLoopIteration" ->
            [StatusModule("InProgress", id, uuid) EXCEPT
                !.iterator = Some([index |-> next_status.index,
                                   itered |-> next_status.itered]),
                !.flow_jobs = Some(Append(next_status.flow_jobs, uuid))]
      [] next_status.kind = "NextBranchStep" ->
            [StatusModule("InProgress", id, uuid) EXCEPT
                !.branchall = next_status.status,
                !.flow_jobs = Some(Append(next_status.flow_jobs, uuid))]
      [] next_status.kind = "BranchChosen" ->
            [StatusModule("InProgress", id, uuid) EXCEPT
                !.branch_chosen = Some(next_status.branch)]
      [] OTHER -> WaitingForExecutor(id, uuid)

\* the UPDATE of the module's status and of step, past the modules on
\* failure_module
status_written(db, id, i, n, new_status) ==
    WriteStatus(db, id,
        IF i >= n
        THEN [db.queue[id].flow_status EXCEPT !.failure_module = new_status, !.step = i]
        ELSE [db.queue[id].flow_status EXCEPT
                !.modules = JsonbSetModule(@, i, new_status), !.step = i],
        IF i >= n THEN FailureEntry ELSE i, new_status.type, "planner")

(***************************************************************************)
(* worker_flow.rs: push_next_flow_job, in the order of its statements.     *)
(* flow_job and status are the caller's snapshot of the row; the writes go *)
(* to the row in the database.                                             *)
(***************************************************************************)
\* the job is pushed and the module's status written, or the jump is taken
push_transformed(db, id, flow_job, status, flow, plan, next_flow_transform) ==
    IF ~next_flow_transform.ok THEN Err(db)
    ELSE IF next_flow_transform.empty
    THEN jump_to_next_step(
             db, status.step, plan.i, id, flow,
             [StatusModule("Success", plan.status_module.id, id) EXCEPT
                 !.flow_jobs = Some(<<>>)],
             EmptyArray)
    ELSE same_worker_sent(
             status_written(
                push(db, next_flow_transform.payload,
                     job_args(flow_job, Unwrap(plan.module), next_flow_transform.next,
                              plan.last_result),
                     plan.scheduled_for_o, flow_job.schedule_path,
                     id, continue_on_same_worker(flow, Unwrap(plan.module)), plan.i),
                id, plan.i, Len(flow.modules),
                new_module_status(next_flow_transform.next, plan.status_module.id,
                                  db.nextId)),
             id, db.nextId, continue_on_same_worker(flow, Unwrap(plan.module)))

\* the retry status is saved and the next transform computed
push_matched(db, id, flow_job, status, flow, plan) ==
    IF IsNone(plan.module) THEN Err(db)
    ELSE push_transformed(retry_saved(db, id, plan.new_retry), id, flow_job, status,
             flow, plan,
             compute_next_flow_transform(flow, Unwrap(plan.module),
                                         plan.status_module, plan.last_result))

\* the gate, for a module whose previous module asks for resume events
push_resumed(db, id, flow_job, status, flow, last_result, status_module, last, required_events, resumes) ==
    IF suspension_gate(status_module.type, Len(resumes), required_events) = "suspend"
    THEN Ok(suspended(db, id, status_module, required_events, last, Len(resumes)))
    ELSE IF suspension_gate(status_module.type, Len(resumes), required_events) = "timeout"
    THEN Ok(add_completed_job(db, id, flow_job, FALSE, FALSE, TimedOutResult,
                              "Timed out waiting to be resumed"))
    ELSE IF status_module.type = "WaitingForEvents" /\ last \notin DOMAIN db.completed
    THEN Err(db)
    ELSE push_matched(approved(db, id, status.step, resumes), id, flow_job, status, flow,
             retry_match(flow, status, status_module,
                 IF status_module.type = "WaitingForEvents"
                 THEN db.completed[last].result
                 ELSE last_result))

push_gated(db, id, flow_job, status, flow, last_result, status_module, resume) ==
    IF IsNone(resume)
    THEN push_matched(db, id, flow_job, status, flow,
                      retry_match(flow, status, status_module, last_result))
    ELSE push_resumed(db, id, flow_job, status, flow, last_result, status_module,
                      Unwrap(resume).job, Unwrap(resume).required_events,
                      resume_rows(db, Unwrap(resume).job))

push_next_flow_job(db, id, flow_job, status, flow, last_result) ==
    IF IsNone(active_module(flow, status.step)) \/ id \notin DOMAIN db.queue
    THEN Err(db)
    ELSE push_gated(db, id, flow_job, status, flow, last_result,
                    active_status_module(status), resume_needed(flow, status))

\* worker_flow.rs: jump_to_next_step
jump_to_next_step(db, status_step, i, job_id, flow, status_module, last_result) ==
    LET next_step == IF i + 1 < Len(flow.modules) THEN Some(i + 1) ELSE None
        jumped ==
            WriteStatus(db, job_id,
                [db.queue[job_id].flow_status EXCEPT
                    !.modules = JsonbSetModule(@, status_step, status_module),
                    !.step = IF IsSome(next_step) THEN Unwrap(next_step) ELSE i],
                status_step, status_module.type, "jump")
        new_job == jumped.queue[job_id]
    IN  IF IsSome(next_step)
        THEN push_next_flow_job(jumped, job_id, new_job, new_job.flow_status,
                                flow, last_result)
        ELSE Ok(add_completed_job(jumped, job_id, new_job, TRUE, FALSE, EmptyArray,
                                  "Forloop completed without iteration"))

\* worker_flow.rs: get_step_of_flow_status; "FailureStep" past the modules
get_step_of_flow_status(db, id) ==
    LET status == db.queue[id].flow_status IN
    IF status.step < Len(status.modules) THEN Some(status.step) ELSE None

\* the marker as it would be if it wrote a whole new InProgress status over
\* the active module: the fault C23_InProgressFrame has to detect
update_flow_status_in_progress_overwriting(db, flow, job_in_progress) ==
    IF flow \notin DOMAIN db.queue THEN Err(db) ELSE
    LET step == get_step_of_flow_status(db, flow)
        status == db.queue[flow].flow_status
    IN  Ok(WriteStatus(db, flow,
            IF IsSome(step)
            THEN [status EXCEPT !.modules[Unwrap(step) + 1] =
                    StatusModule("InProgress", @.id, job_in_progress)]
            ELSE [status EXCEPT !.failure_module =
                    StatusModule("InProgress", @.id, job_in_progress)],
            IF IsSome(step) THEN Unwrap(step) ELSE FailureEntry,
            "InProgress", "marker"))

\* worker_flow.rs: update_flow_status_in_progress
update_flow_status_in_progress(db, flow, job_in_progress) ==
    IF flow \notin DOMAIN db.queue THEN Err(db) ELSE
    LET step == get_step_of_flow_status(db, flow)
        status == db.queue[flow].flow_status
    IN  Ok(WriteStatus(db, flow,
            IF IsSome(step)
            THEN [status EXCEPT !.modules[Unwrap(step) + 1].job = job_in_progress,
                                !.modules[Unwrap(step) + 1].type = "InProgress"]
            ELSE [status EXCEPT !.failure_module.job = job_in_progress,
                                !.failure_module.type = "InProgress"],
            IF IsSome(step) THEN Unwrap(step) ELSE FailureEntry,
            "InProgress", "marker"))

(***************************************************************************)
(* The flows the model runs.                                               *)
(***************************************************************************)
Script == FlowModule("script")
Retrying(m, attempts) ==
    [m EXCEPT !.retry = [attempts |-> attempts, seconds |-> attempts]]
Suspending(m, events) == [m EXCEPT !.suspend = events]
Sleeping(m) == [m EXCEPT !.sleep = TRUE]
Stopping(m, expr, skip) == [m EXCEPT !.stop = expr, !.skip_if_stopped = skip]
Forloop(count, body, skip) ==
    [FlowModule("forloop") EXCEPT
        !.iterator = count, !.modules = WithIds(body), !.skip_failures = skip]
BranchOne(branches, default) ==
    [FlowModule("branchone") EXCEPT
        !.branches = [k \in 1..Len(branches) |->
                        [expr |-> branches[k][1], modules |-> WithIds(branches[k][2])]],
        !.default = WithIds(default)]
BranchAll(branches) ==
    [FlowModule("branchall") EXCEPT
        !.branches = [k \in 1..Len(branches) |->
                        [modules |-> WithIds(branches[k][1]),
                         skip_failure |-> branches[k][2]]]]

\* the bodies of the inner flows
Bodies ==
    {<<>>,
     <<Script>>,
     <<Stopping(Script, "true", TRUE)>>,
     <<Stopping(Script, "true", FALSE)>>,
     <<Forloop(0, <<Script>>, FALSE)>>,
     <<Suspending(Script, 1), Script>>,
     <<Script, Forloop(0 - 1, <<Script>>, FALSE)>>}

Scripts ==
    {Script,
     Retrying(Script, 1),
     Retrying(Script, MAX_RETRY_ATTEMPTS + 2),
     Suspending(Script, 1),
     Suspending(Script, 2),
     Suspending(Retrying(Script, 1), 1),
     Stopping(Script, "true", FALSE),
     Stopping(Script, "true", TRUE),
     Stopping(Script, "false", TRUE),
     Stopping(Script, "bad", FALSE)}

Forloops ==
    {Forloop(c, b, FALSE) : c \in 0..2, b \in Bodies}
    \cup {Forloop(2, <<Script>>, TRUE),
          Forloop(0 - 1, <<Script>>, FALSE),
          Retrying(Forloop(2, <<Script>>, FALSE), 1),
          Retrying(Forloop(0, <<Script>>, FALSE), 1)}

Branches ==
    {BranchOne(<<>>, b) : b \in Bodies}
    \cup {BranchOne(<<<<e, <<Script>>>>, <<"true", b>>>>, <<Script>>) :
            e \in {"false", "true", "bad"}, b \in Bodies}
    \cup {BranchOne(<<<<"false", <<Script>>>>, <<"false", <<Script>>>>>>,
                    <<Stopping(Script, "true", FALSE)>>),
          BranchAll(<<>>),
          BranchAll(<<<<<<Script>>, FALSE>>>>),
          BranchAll(<<<<<<Script>>, FALSE>>, <<<<Script>>, FALSE>>>>),
          BranchAll(<<<<<<Script>>, TRUE>>, <<<<Script>>, FALSE>>>>),
          BranchAll(<<<<<<Stopping(Script, "true", TRUE)>>, FALSE>>, <<<<Script>>, FALSE>>>>)}

Modules == Scripts \cup Forloops \cup Branches

FailureModules ==
    {None, Some(Script), Some(Retrying(Script, 1)),
     Some(Stopping(Script, "true", TRUE)),
     Some(Forloop(0, <<Script>>, FALSE))}
    \cup {Some(Forloop(c, <<Stopping(Script, "true", TRUE)>>, FALSE)) : c \in 1..2}

\* the modules that follow another one in the flows of two modules
Seconds ==
    {Script, Retrying(Script, 1), Stopping(Script, "true", TRUE),
     Forloop(0, <<Script>>, FALSE), Forloop(1, <<Script>>, FALSE),
     Forloop(0 - 1, <<Script>>, FALSE), BranchAll(<<>>),
     BranchOne(<<>>, <<Script>>)}

\* the flows that keep their jobs on one worker
SameWorkerFlows ==
    {FlowValue(<<m>>, fm, TRUE) :
        m \in {Script, Sleeping(Script), Suspending(Script, 1), Retrying(Script, 1),
               Forloop(2, <<Script>>, FALSE), Forloop(1, <<Sleeping(Script)>>, FALSE)},
        fm \in {None, Some(Script), Some(Sleeping(Script))}}
    \cup {FlowValue(<<m, Script>>, None, TRUE) :
            m \in {Script, Sleeping(Script), Suspending(Script, 1)}}

\* the flows that are also run without a schedule
Unscheduled ==
    {FlowValue(<<m>>, None, FALSE) : m \in {Script, Forloop(2, <<Script>>, FALSE)}}

Flows ==
    SameWorkerFlows \cup
    {FlowValue(<<>>, None, FALSE)}
    \cup {FlowValue(<<m>>, fm, FALSE) : m \in Modules, fm \in FailureModules}
    \cup {FlowValue(<<m, m2>>, fm, FALSE) :
            m \in Scripts \cup {Forloop(0, <<Script>>, FALSE), Forloop(1, <<Script>>, FALSE)},
            m2 \in Seconds, fm \in {None, Some(Script)}}

(***************************************************************************)
(* The state: the tables of the database, the uuid source and the history. *)
(***************************************************************************)
VARIABLES queue, completed, resume_job, nextId, calls, errors, same_worker_tx, gate, eval, retry_eval

vars == <<queue, completed, resume_job, nextId, calls, errors, same_worker_tx, gate, eval,
         retry_eval>>

\* the variables of the protocols and functions looked at on their own
aux == <<gate, eval, retry_eval>>

\* the tables of the database with the ghost records
tables == <<queue, completed, resume_job, nextId, calls, errors, same_worker_tx>>

DB == [queue |-> queue, completed |-> completed, resume_job |-> resume_job,
       nextId |-> nextId, calls |-> calls, same_worker_tx |-> same_worker_tx]

\* the same-worker channel: whether its receiver is there, and the sends
\* made on it, each with the uuid, its outcome and whether the row of the
\* job and the status naming it were committed when it was made
ChannelNew == [open |-> TRUE, sends |-> <<>>]

EmptyDB == [queue |-> <<>>, completed |-> <<>>, resume_job |-> <<>>,
            nextId |-> 1, calls |-> {}, same_worker_tx |-> ChannelNew]

\* an evaluation of an expression by the driver: the value handed on as
\* last_result, the place that evaluates, and the previous_result it sees
Evaluation(v) == [v |-> v, site |-> "none", previous_result |-> Null]

\* a call of next_retry before it is made: the arguments and no outcome
RetryCall(cfg, state) == [cfg |-> cfg, state |-> state, called |-> FALSE, out |-> None]

\* the lock on the flow's row: free, or held by a transaction
Free == 0
Coordinator == 0 - 1

\* the resume deliveries that race with the coordinator at the gate
Deliveries == 1..(MaxResumes + 1)

\* the gate of one flow in steps: the holder of the row lock, the planner's
\* position in the gate and the rows it counted, the committed resume_job
\* rows of the previous job, the row's suspend, the status of the gated
\* module, and the position of every resume delivery
GateNew(required_events) ==
    [lock |-> Free, pc |-> "idle", received |-> 0, rows |-> 0, suspend |-> 0,
     status |-> "WaitingForPriorSteps", required_events |-> required_events,
     queued |-> TRUE,
     delivery |-> [e \in Deliveries |-> "idle"]]

\* the state a handler leaves, within the bound on the rows pushed
Leaves(r, op, job) ==
    /\ r.db.nextId <= MaxJobs + 1
    /\ queue' = r.db.queue
    /\ completed' = r.db.completed
    /\ resume_job' = r.db.resume_job
    /\ nextId' = r.db.nextId
    /\ calls' = r.db.calls
    /\ same_worker_tx' = r.db.same_worker_tx
    /\ errors' = IF r.ok THEN errors ELSE errors \cup {[op |-> op, job |-> job]}
    /\ UNCHANGED aux

Init ==
    \E f \in Flows, schedule_path \in BOOLEAN :
        LET db == push(EmptyDB, f, EmptyObject, None, schedule_path, NilJob, FALSE, 0) IN
        /\ schedule_path \/ f \in Unscheduled
        /\ queue = db.queue
        /\ completed = db.completed
        /\ resume_job = db.resume_job
        /\ nextId = db.nextId
        /\ calls = db.calls
        /\ same_worker_tx = db.same_worker_tx
        /\ errors = {}
        /\ gate = GateNew(0)
        /\ eval = Evaluation(Null)
        /\ retry_eval = RetryCall(RetryNone, RetryDefault)

\* the worker's pull of a row: it is marked running and leaves suspension
Pulled(db, j) ==
    SetRow(db, j, [db.queue[j] EXCEPT !.running = TRUE, !.suspend_until = FALSE])

\* the worker's handling of a pulled job: the in-progress marker on the
\* parent flow, then handle_flow when the job is itself a flow
Handle(db, j, tie) ==
    LET job == db.queue[j]
        marked ==
            IF job.parent_job /= NilJob
            THEN update_flow_status_in_progress(db, job.parent_job, j).db
            ELSE db
    IN  IF job.kind = "flow"
        THEN handle_flow(marked, j, marked.queue[j], job.args, tie)
        ELSE Ok(marked)

\* a worker pulls a queued script job
StartScript(j) ==
    /\ j \in DOMAIN queue
    /\ queue[j].kind = "script"
    /\ ~queue[j].running
    /\ Leaves(Handle(Pulled(DB, j), j, "asc"), "start", j)

\* a worker pulls a queued flow job
StartFlow(j) ==
    /\ j \in DOMAIN queue
    /\ queue[j].kind = "flow"
    /\ ~queue[j].running
    /\ \E tie \in {"asc", "desc"} : Leaves(Handle(Pulled(DB, j), j, tie), "start", j)

\* a worker pulls a suspended flow again: its events arrived or it timed out
WakeFlow(j) ==
    /\ j \in DOMAIN queue
    /\ queue[j].kind = "flow"
    /\ queue[j].running
    /\ queue[j].suspend_until
    /\ \E tie \in {"asc", "desc"} : Leaves(Handle(Pulled(DB, j), j, tie), "wake", j)

\* a worker finishes a script job and reports it to the parent flow
CompleteJob(j, success, unrecoverable) ==
    /\ j \in DOMAIN queue
    /\ queue[j].kind = "script"
    /\ queue[j].running
    /\ success => ~unrecoverable
    /\ \E tie \in {"asc", "desc"} :
        LET result == Val(IF success THEN "leaf" ELSE "error", j, <<>>)
            finished == add_completed_job(DB, j, queue[j], success, FALSE, result,
                                          "job completed")
        IN  Leaves(
                IF queue[j].parent_job /= NilJob
                THEN update_flow_status_after_job_completion(
                         finished, queue[j].parent_job, j, success, result,
                         unrecoverable, None, tie)
                ELSE Ok(finished),
                "complete", j)

\* the cancel endpoint sets the flag on a flow's row
CancelFlow(j) ==
    /\ j \in DOMAIN queue
    /\ queue[j].kind = "flow"
    /\ ~queue[j].canceled
    /\ queue' = (j :> [queue[j] EXCEPT !.canceled = TRUE]) @@ queue
    /\ UNCHANGED <<completed, resume_job, nextId, calls, errors, same_worker_tx, aux>>

\* the flow's active module is WaitingForEvents for the events of the job j
WaitsFor(row, j) ==
    /\ row.flow_status.step < Len(row.flow_status.modules)
    /\ row.flow_status.modules[row.flow_status.step + 1].type = "WaitingForEvents"
    /\ row.flow_status.modules[row.flow_status.step + 1].job = j

ResumeCount == LET S == DOMAIN resume_job IN
    IF S = {} THEN 0 ELSE
    LET RECURSIVE Sum(_)
        Sum(T) == IF T = {} THEN 0
                  ELSE LET x == CHOOSE x \in T : TRUE IN Len(resume_job[x]) + Sum(T \ {x})
    IN Sum(S)

\* the resume endpoint: under the lock on the flow's row it inserts a
\* resume_job row for the job j of a suspending module and lowers the
\* suspend of a flow that waits for the events of j
ResumeJob(j) ==
    /\ ResumeCount < MaxResumes
    /\ \/ j \in DOMAIN queue /\ queue[j].running
       \/ j \in DOMAIN completed
    /\ LET job == IF j \in DOMAIN queue THEN queue[j] ELSE completed[j]
           flow == job.parent_job
       IN  /\ flow \in DOMAIN queue
           /\ job.step < Len(queue[flow].raw_flow.modules)
           /\ queue[flow].raw_flow.modules[job.step + 1].suspend > 0
           /\ resume_job' =
                (j :> Append(IF j \in DOMAIN resume_job THEN resume_job[j] ELSE <<>>,
                             [approver |-> ResumeCount + 1, value |-> Null])) @@ resume_job
           /\ queue' = (flow :> [queue[flow] EXCEPT
                                    !.suspend = IF @ > 0 /\ WaitsFor(queue[flow], j)
                                                THEN @ - 1 ELSE @]) @@ queue
    /\ UNCHANGED <<completed, nextId, calls, errors, same_worker_tx, aux>>

\* the receiver of the same-worker channel goes away while a flow that
\* keeps its jobs on one worker is in the queue
CloseChannel ==
    /\ same_worker_tx.open
    /\ \E j \in DOMAIN queue : queue[j].kind = "flow" /\ queue[j].raw_flow.same_worker
    /\ same_worker_tx' = [same_worker_tx EXCEPT !.open = FALSE]
    /\ UNCHANGED <<queue, completed, resume_job, nextId, calls, errors, aux>>

JobIds == 1..MaxJobs

Next ==
    \/ \E j \in JobIds : StartScript(j)
    \/ \E j \in JobIds : StartFlow(j)
    \/ \E j \in JobIds : WakeFlow(j)
    \/ \E j \in JobIds, success \in BOOLEAN, unrecoverable \in BOOLEAN :
            CompleteJob(j, success, unrecoverable)
    \/ \E j \in JobIds : CancelFlow(j)
    \/ \E j \in JobIds : ResumeJob(j)
    \/ CloseChannel

Spec == Init /\ [][Next]_vars

(***************************************************************************)
(* The suspension gate in steps, against concurrent resume deliveries.     *)
(***************************************************************************)
\* the lock as it would be if the planner went on without taking it: the
\* fault C14_NoResumeLost has to detect
lock_flow_without_lock(lock) == Some(lock)

\* SELECT null FROM queue WHERE id = $1 FOR UPDATE: the lock once the
\* planner's transaction has it, None while another transaction holds it
lock_flow(lock) == IF lock = Free THEN Some(Coordinator) ELSE None

\* a commit releases the lock its transaction holds
Released(lock, holder) == IF lock = holder THEN Free ELSE lock

\* the planner reaches the gate of a module that waits for prior steps or
\* for events, begins a transaction and locks the flow's row
GateLock ==
    /\ gate.queued
    /\ gate.pc = "idle"
    /\ gate.status \in {"WaitingForPriorSteps", "WaitingForEvents"}
    /\ IsSome(lock_flow(gate.lock))
    /\ gate' = [gate EXCEPT !.lock = Unwrap(lock_flow(gate.lock)), !.pc = "locked"]
    /\ UNCHANGED <<tables, eval, retry_eval>>

\* it reads the resume_job rows of the previous job
GateRead ==
    /\ gate.pc = "locked"
    /\ gate' = [gate EXCEPT !.received = gate.rows, !.pc = "read"]
    /\ UNCHANGED <<tables, eval, retry_eval>>

\* enough rows: the approvers are written, the transaction commits and the
\* module is planned
GateRun ==
    /\ gate.pc = "read"
    /\ suspension_gate(gate.status, gate.received, gate.required_events) = "run"
    /\ gate' = [gate EXCEPT !.status = "WaitingForExecutor", !.pc = "idle",
                            !.lock = Released(gate.lock, Coordinator)]
    /\ UNCHANGED <<tables, eval, retry_eval>>

\* too few rows the first time: WaitingForEvents and suspend are written
\* and the transaction commits
GateSuspend ==
    /\ gate.pc = "read"
    /\ suspension_gate(gate.status, gate.received, gate.required_events) = "suspend"
    /\ gate' = [gate EXCEPT !.status = "WaitingForEvents",
                            !.suspend = gate.required_events - gate.received,
                            !.pc = "idle",
                            !.lock = Released(gate.lock, Coordinator)]
    /\ UNCHANGED <<tables, eval, retry_eval>>

\* too few rows on a module already WaitingForEvents: the transaction
\* commits and the flow is completed as timed out
GateTimeout ==
    /\ gate.pc = "read"
    /\ suspension_gate(gate.status, gate.received, gate.required_events) = "timeout"
    /\ gate' = [gate EXCEPT !.queued = FALSE, !.pc = "idle",
                            !.lock = Released(gate.lock, Coordinator)]
    /\ UNCHANGED <<tables, eval, retry_eval>>

\* a resume delivery begins its transaction and locks the flow's row
ResumeLock(e) ==
    /\ gate.queued
    /\ gate.delivery[e] = "idle"
    /\ gate.lock = Free
    /\ gate' = [gate EXCEPT !.lock = e, !.delivery[e] = "locked"]
    /\ UNCHANGED <<tables, eval, retry_eval>>

\* it inserts its resume_job row, lowers the suspend of a flow that waits
\* for events, and commits
ResumeCommit(e) ==
    /\ gate.delivery[e] = "locked"
    /\ gate' = [gate EXCEPT !.rows = @ + 1,
                            !.suspend = IF @ > 0 /\ gate.status = "WaitingForEvents"
                                        THEN @ - 1 ELSE @,
                            !.delivery[e] = "done",
                            !.lock = Released(gate.lock, e)]
    /\ UNCHANGED <<tables, eval, retry_eval>>

InitGate ==
    /\ queue = <<>>
    /\ completed = <<>>
    /\ resume_job = <<>>
    /\ nextId = 1
    /\ calls = {}
    /\ same_worker_tx = ChannelNew
    /\ errors = {}
    /\ eval = Evaluation(Null)
    /\ retry_eval = RetryCall(RetryNone, RetryDefault)
    /\ \E required_events \in 1..MaxResumes : gate = GateNew(required_events)

NextGate ==
    \/ GateLock
    \/ GateRead
    \/ GateRun
    \/ GateSuspend
    \/ GateTimeout
    \/ \E e \in Deliveries : ResumeLock(e)
    \/ \E e \in Deliveries : ResumeCommit(e)

SpecGate == InitGate /\ [][NextGate]_vars

(***************************************************************************)
(* The expressions the driver evaluates, and the previous_result they see. *)
(***************************************************************************)
MaxNesting == 2

\* the values handed on as last_result: scalars, arrays and objects, and
\* objects with the key previous_result around them, nested to MaxNesting
Scalars ==
    {Null, EmptyObject, EmptyArray, Val("leaf", 1, <<>>), Val("leaf", 2, <<>>),
     Val("error", 1, <<>>)}

RECURSIVE Values(_)
Values(depth) ==
    IF depth = 0 THEN Scalars
    ELSE Values(depth - 1)
         \cup {Val("object", 0, <<v>>) : v \in Values(depth - 1)}
         \cup {Val("array", 0, <<v>>) : v \in Values(depth - 1)}

\* transform_input: the variables of a Javascript input transform
transform_input_context(flow_input, last_result) ==
    [flow_input |-> flow_input,
     previous_result |-> flatten_previous_result(last_result)]

\* compute_bool_from_expr: the variables of a branch predicate or of a
\* stop_after_if expression
bool_expr_context(flow_input, result) ==
    [flow_input |-> flow_input, result |-> result, previous_result |-> result]

\* compute_next_flow_transform: the variables of a for-each iterator
iterator_context(flow_input, last_result) ==
    [flow_input |-> flow_input, result |-> last_result,
     previous_result |-> last_result]

\* an input transform of the next job is evaluated
EvalInputTransform ==
    /\ eval.site = "none"
    /\ eval' = [eval EXCEPT !.site = "input_transform",
                            !.previous_result =
                                transform_input_context(EmptyObject, eval.v).previous_result]
    /\ UNCHANGED <<tables, gate, retry_eval>>

\* the iterator of a for-each is evaluated
EvalIterator ==
    /\ eval.site = "none"
    /\ eval' = [eval EXCEPT !.site = "iterator",
                            !.previous_result =
                                iterator_context(EmptyObject, eval.v).previous_result]
    /\ UNCHANGED <<tables, gate, retry_eval>>

\* the predicate of a branch of a branch-one is evaluated
EvalBranchPredicate ==
    /\ eval.site = "none"
    /\ eval' = [eval EXCEPT !.site = "branch_predicate",
                            !.previous_result =
                                bool_expr_context(EmptyObject, eval.v).previous_result]
    /\ UNCHANGED <<tables, gate, retry_eval>>

\* the stop_after_if of the module that completed is evaluated on its result
EvalStopAfterIf ==
    /\ eval.site = "none"
    /\ eval' = [eval EXCEPT !.site = "stop_after_if",
                            !.previous_result =
                                bool_expr_context(EmptyObject, eval.v).previous_result]
    /\ UNCHANGED <<tables, gate, retry_eval>>

InitEval ==
    /\ queue = <<>>
    /\ completed = <<>>
    /\ resume_job = <<>>
    /\ nextId = 1
    /\ calls = {}
    /\ same_worker_tx = ChannelNew
    /\ errors = {}
    /\ gate = GateNew(0)
    /\ retry_eval = RetryCall(RetryNone, RetryDefault)
    /\ \E v \in Values(MaxNesting) : eval = Evaluation(v)

NextEval ==
    \/ EvalInputTransform
    \/ EvalIterator
    \/ EvalBranchPredicate
    \/ EvalStopAfterIf

SpecEval == InitEval /\ [][NextEval]_vars

(***************************************************************************)
(* next_retry on its own, over the retry policies and retry states.        *)
(***************************************************************************)
MaxAttempts == 3
MaxSeconds == 3
MaxFailCount == 3

\* the retry policies: so many attempts, so many seconds between them
RetryPolicies == [attempts : 0..MaxAttempts, seconds : 0..MaxSeconds]

\* the retry states: fail_count failures, the failed jobs listed
RetryStates ==
    {[fail_count |-> n, failed_jobs |-> [k \in 1..n |-> k],
      previous_result |-> Some(Null)] : n \in 0..MaxFailCount}

\* the planner or the reconciler asks next_retry
CallNextRetry ==
    /\ ~retry_eval.called
    /\ retry_eval' = [retry_eval EXCEPT
                        !.called = TRUE,
                        !.out = next_retry(retry_eval.cfg, retry_eval.state)]
    /\ UNCHANGED <<tables, gate, eval>>

InitRetry ==
    /\ queue = <<>>
    /\ completed = <<>>
    /\ resume_job = <<>>
    /\ nextId = 1
    /\ calls = {}
    /\ same_worker_tx = ChannelNew
    /\ errors = {}
    /\ gate = GateNew(0)
    /\ eval = Evaluation(Null)
    /\ \E cfg \in RetryPolicies, state \in RetryStates : retry_eval = RetryCall(cfg, state)

NextRetry == CallNextRetry

SpecRetry == InitRetry /\ [][NextRetry]_vars

(***************************************************************************)
(* What the properties speak about.                                        *)
(***************************************************************************)
\* the flows with a persisted flow_status: queued, or archived on completion
QueuedFlows == {j \in DOMAIN queue : queue[j].kind = "flow"}
CompletedFlows == {j \in DOMAIN completed : completed[j].kind = "flow"}
FlowIds == QueuedFlows \cup CompletedFlows
Row(j) == IF j \in DOMAIN queue THEN queue[j] ELSE completed[j]
Jobs == DOMAIN queue \cup DOMAIN completed
\* the child jobs launched by flow f for the module at index i
Launched(f, i) == {j \in Jobs : Row(j).parent_job = f /\ Row(j).step = i}
ChildrenOf(f) == {j \in Jobs : Row(j).parent_job = f}
\* the hand-over of job j on the same-worker channel returned an error
SendFailed(j) ==
    \E k \in DOMAIN same_worker_tx.sends :
        same_worker_tx.sends[k].job = j /\ ~same_worker_tx.sends[k].ok

\* C1: every persisted flow_status has 0 <= step <= number of modules
C1_StepInRange ==
    \A f \in FlowIds :
        /\ Row(f).flow_status.step >= 0
        /\ Row(f).flow_status.step <= Len(Row(f).raw_flow.modules)

ModuleAt(f, i) ==
    IF i < Len(Row(f).raw_flow.modules) THEN Some(Row(f).raw_flow.modules[i + 1])
    ELSE Row(f).raw_flow.failure_module

\* no child of the flow was enqueued by the call or after it
NoChildSince(c) == \A j \in ChildrenOf(c.flow) : j < c.at

\* C2: when the job of a failure module (a script without retry) completes,
\* the flow terminates with the success of that job and the failure module
\* is not launched again
C2_FailureModuleTerminates ==
    \A c \in calls :
        (/\ c.child /= NilJob /\ c.step >= c.len
         /\ IsNone(c.override) /\ ~c.canceled
         /\ IsSome(ModuleAt(c.flow, c.step))
         /\ Unwrap(ModuleAt(c.flow, c.step)).kind = "script"
         /\ Unwrap(ModuleAt(c.flow, c.step)).retry.attempts = 0)
        => /\ c.flow \in DOMAIN completed
           /\ completed[c.flow].success = c.success
           /\ NoChildSince(c)

\* C3: at most MAX_RETRY_ATTEMPTS + 1 child jobs are launched for a script
\* module, and while an attempt of a module under a retry policy is out,
\* failed_jobs holds one job per earlier attempt
C3_RetryBound ==
    \A f \in FlowIds :
        \A i \in 0..Len(Row(f).raw_flow.modules) :
            (IsSome(ModuleAt(f, i)) /\ Unwrap(ModuleAt(f, i)).kind = "script")
            => /\ Cardinality(Launched(f, i)) <= MAX_RETRY_ATTEMPTS + 1
               /\ (/\ f \in DOMAIN queue
                   /\ has_attempts(Unwrap(ModuleAt(f, i)).retry)
                   /\ Launched(f, i) \cap DOMAIN queue /= {})
                  => Len(queue[f].flow_status.retry.failed_jobs)
                        = Cardinality(Launched(f, i)) - 1

\* C4: every persisted flow_status has retry.fail_count <= MAX_RETRY_ATTEMPTS
\* and as many failed_jobs as fail_count
C4_RetryStatusBound ==
    \A f \in FlowIds :
        /\ Row(f).flow_status.retry.fail_count <= MAX_RETRY_ATTEMPTS
        /\ Len(Row(f).flow_status.retry.failed_jobs)
              = Row(f).flow_status.retry.fail_count

\* C5: a reconciliation of a flow whose row is canceled enqueues no child
\* and terminates the flow with success = false and the canceled logs,
\* whatever success, stop_early and the retries left are.  calls holds the
\* reconciliations that reached the commit; one that returns an error before
\* it (a stop_after_if that is not a boolean) leaves the database as it was.
C5_CancellationDominates ==
    \A c \in calls :
        c.canceled
        => /\ c.flow \in DOMAIN completed
           /\ ~completed[c.flow].success
           /\ completed[c.flow].logs = "Flow job canceled"
           /\ NoChildSince(c)

\* a canceled flow was reconciled after a failure that a retry would
\* otherwise have followed, and after a success before its last step
C5_Witness ==
    \E c \in calls :
        /\ c.canceled /\ ~c.stop_early
        /\ \/ ~c.success /\ ~c.unrecoverable /\ c.step < c.len
              /\ Unwrap(ModuleAt(c.flow, c.step)).retry.attempts > 0
           \/ c.success /\ c.step + 1 < c.len
        /\ c.flow \in DOMAIN completed
        /\ completed[c.flow].logs = "Flow job canceled"

\* the flow j is parked at the gate: its active module is WaitingForEvents
\* and the previous job has fewer resume rows than required
Parked(j) ==
    /\ j \in DOMAIN queue
    /\ queue[j].kind = "flow"
    /\ LET status == queue[j].flow_status IN
       /\ status.step < Len(status.modules)
       /\ LET m == status.modules[status.step + 1] IN
          /\ m.type = "WaitingForEvents"
          /\ (IF m.job \in DOMAIN resume_job THEN Len(resume_job[m.job]) ELSE 0) < m.count

\* C6 as stated: the gate invoked again with the same, insufficient, events
\* leaves the same persisted state and the flow queued
C6_IdempotentSuspension ==
    [][\A j \in 1..MaxJobs :
          (Parked(j) /\ WakeFlow(j))
          => /\ j \in DOMAIN queue'
             /\ queue'[j].flow_status = queue[j].flow_status
             /\ queue'[j].suspend = queue[j].suspend]_vars

\* C6 amended: the gate invoked again with the same, insufficient, events
\* leaves flow_status and suspend as they are, enqueues nothing and
\* completes the flow as timed out
C6_SecondSuspensionTimesOut ==
    [][\A j \in 1..MaxJobs :
          (Parked(j) /\ WakeFlow(j))
          => /\ j \notin DOMAIN queue'
             /\ j \in DOMAIN completed'
             /\ completed'[j].flow_status = queue[j].flow_status
             /\ completed'[j].flow_status.modules[queue[j].flow_status.step + 1].type
                    = "WaitingForEvents"
             /\ ~completed'[j].success
             /\ ~completed'[j].skipped
             /\ completed'[j].logs = "Timed out waiting to be resumed"
             /\ completed'[j].result = TimedOutResult
             /\ nextId' = nextId]_vars

\* a flow was completed by the timeout branch of the gate
C6_Witness ==
    \E j \in CompletedFlows :
        /\ completed[j].logs = "Timed out waiting to be resumed"
        /\ completed[j].flow_status.step < Len(completed[j].flow_status.modules)
        /\ completed[j].flow_status.modules[completed[j].flow_status.step + 1].type
              = "WaitingForEvents"

\* C7: every completed flow that has a parent was handed to the reconciler
\* of its parent as the completed child
C7_ParentReconciled ==
    \A j \in CompletedFlows :
        completed[j].parent_job /= NilJob
        => \E c \in calls : c.flow = completed[j].parent_job /\ c.child = j

\* the reconciliation that terminated the flow f, if it ended in one
Terminating(f) == {c \in calls : c.flow = f /\ c.done}

\* the override a parent's reconciliation received is Some(skip_if_stop_early)
\* if the child flow stopped early and None otherwise
OverrideMatchesChild(c) ==
    \A cc \in Terminating(c.child) :
        c.override = IF cc.stop_early THEN Some(cc.skip_if_stop_early) ELSE None

\* C8: under stop_early_override = Some(true) the parent marks its
\* active step Success with the inner flow as job, enqueues nothing and
\* terminates with skipped = true; the override is Some(skip_if_stop_early)
\* if and only if the child flow stopped early
C8_ParentMarkedSuccessAndSkipped ==
    \A c \in calls :
        /\ OverrideMatchesChild(c)
        /\ c.override = Some(TRUE)
           => /\ c.wrote.type = "Success"
              /\ c.wrote.job = c.child
              /\ NoChildSince(c)
              /\ c.flow \in DOMAIN completed
              /\ completed[c.flow].skipped

\* successive snapshots of one flow's status
SnapshotPairs(f) ==
    {<<Row(f).history[k], Row(f).history[k + 1]>> : k \in 1..(Len(Row(f).history) - 1)}

EntersFailurePhase(f, b) ==
    b.step = Len(Row(f).raw_flow.modules) /\ b.by \in {"planner", "jump"}

\* C9 as stated: step never decreases, grows by one when a module becomes
\* Success and otherwise stays, but for the jump to modules.len()
C9_MonotoneStep ==
    \A f \in FlowIds :
        \A p \in SnapshotPairs(f) :
            /\ p[2].step >= p[1].step
            /\ IF p[2].wrote = "Success" /\ p[2].at /= FailureEntry
               THEN p[2].step = p[1].step + 1
               ELSE p[2].step = p[1].step \/ EntersFailurePhase(f, p[2])

\* C9 amended: step never decreases; it grows by one when the reconciler
\* marks a module Success, and when jump_to_next_step passes an empty
\* for-each or branch-all that is not the last module; it stays when the
\* jump marks the last module Success, and otherwise stays, but for the jump
\* to modules.len()
C9_StepNeverDecreases ==
    \A f \in FlowIds :
        \A p \in SnapshotPairs(f) :
            /\ p[2].step >= p[1].step
            /\ IF p[2].wrote = "Success" /\ p[2].at /= FailureEntry
                  /\ p[2].by = "reconciler"
               THEN p[2].step = p[1].step + 1
               ELSE IF p[2].by = "jump"
               THEN \/ p[2].step = p[1].step + 1
                       /\ p[2].step < Len(Row(f).raw_flow.modules)
                    \/ p[2].step = p[1].step
                       /\ p[2].step + 1 = Len(Row(f).raw_flow.modules)
                    \/ EntersFailurePhase(f, p[2])
               ELSE p[2].step = p[1].step \/ EntersFailurePhase(f, p[2])

\* a flow whose step grew on a Success of the reconciler, and whose last
\* module was then marked Success by the jump with the step left as it was
C9_Witness ==
    \E f \in FlowIds :
        /\ \E p \in SnapshotPairs(f) :
              p[2].by = "reconciler" /\ p[2].wrote = "Success"
              /\ p[2].step = p[1].step + 1
        /\ \E p \in SnapshotPairs(f) :
              p[2].by = "jump" /\ p[2].step = p[1].step

ActiveTypes == {"InProgress", "WaitingForExecutor"}

\* C10: in every persisted flow_status at most one module status, over
\* modules and failure_module, is InProgress or WaitingForExecutor, and a
\* flow has at most one child job queued or running
C10_AtMostOneChild ==
    \A f \in FlowIds :
        LET status == Row(f).flow_status IN
        /\ Cardinality({k \in 1..Len(status.modules) : status.modules[k].type \in ActiveTypes})
             + (IF status.failure_module.type \in ActiveTypes THEN 1 ELSE 0) <= 1
        /\ Cardinality(ChildrenOf(f) \cap DOMAIN queue) <= 1


\* the results of the jobs in the order of the list
ResultsOf(jobs) == Val("array", 0, [k \in 1..Len(jobs) |-> completed[jobs[k]].result])

\* C11: the result of a for-each or branch-all that becomes Success is the
\* array of the results of its children in iteration or branch order, which
\* is the order of flow_jobs, whatever the order the rows come in
C11_AggregationOrder ==
    \A c \in calls :
        (c.wrote.type = "Success" /\ IsSome(c.wrote.flow_jobs))
        => /\ Range(Unwrap(c.wrote.flow_jobs)) \subseteq DOMAIN completed
           /\ c.result = ResultsOf(Unwrap(c.wrote.flow_jobs))

\* the part of C11 about the for-each, whose children differ in iter.index
C11_ForEachOrder ==
    \A c \in calls :
        (c.wrote.type = "Success" /\ IsSome(c.wrote.flow_jobs) /\ IsSome(c.before.iterator))
        => /\ Range(Unwrap(c.wrote.flow_jobs)) \subseteq DOMAIN completed
           /\ c.result = ResultsOf(Unwrap(c.wrote.flow_jobs))


\* C12: every persisted snapshot in which a module's status became Success,
\* by the reconciler or by the jump over an empty for-each or branch-all,
\* has the retry status cleared
C12_RetryClearedOnSuccess ==
    \A f \in FlowIds :
        \A k \in 1..Len(Row(f).history) :
            Row(f).history[k].wrote = "Success"
            => Row(f).history[k].retry = RetryDefault

\* the part of C12 about the reconciler
C12_ReconcilerClearsRetry ==
    \A f \in FlowIds :
        \A k \in 1..Len(Row(f).history) :
            (Row(f).history[k].wrote = "Success" /\ Row(f).history[k].by = "reconciler")
            => Row(f).history[k].retry = RetryDefault

\* the number of resume_job rows of a job
ReceivedIn(rows, job) == IF job \in DOMAIN rows THEN Len(rows[job]) ELSE 0
Received(job) == ReceivedIn(resume_job, job)

\* the module at step i of the flow f is gated: the module before it asks
\* for events, finished with Success, and its job has too few resume rows
Gated(f, i) ==
    /\ Row(f).raw_flow.modules[i].suspend > 0
    /\ i <= Len(Row(f).flow_status.modules)
    /\ Row(f).flow_status.modules[i].type = "Success"
    /\ Received(Row(f).flow_status.modules[i].job) < Row(f).raw_flow.modules[i].suspend

\* the step parks the flow f: its active module becomes WaitingForEvents
Parks(f) ==
    /\ f \in DOMAIN queue /\ f \in DOMAIN queue'
    /\ ~WaitsFor(queue[f], queue'[f].flow_status.modules[queue'[f].flow_status.step + 1].job)
    /\ queue'[f].flow_status.step < Len(queue'[f].flow_status.modules)
    /\ queue'[f].flow_status.modules[queue'[f].flow_status.step + 1].type
          = "WaitingForEvents"

\* C13: while the job of a successful module that asks for N events has
\* fewer than N resume rows, no child of the next module exists and a flow
\* still queued at that step holds WaitingForEvents{count = N, job = the
\* previous job}; the step that parks the flow writes suspend = N - received
\* and suspend_until, and enqueues nothing
C13_GateHolds ==
    [][\A f \in FlowIds' :
        \A i \in 1..(Len(Row(f)'.raw_flow.modules) - 1) :
            Gated(f, i)'
            => /\ Launched(f, i)' = {}
               /\ (f \in DOMAIN queue' /\ queue'[f].flow_status.step = i)
                  => /\ queue'[f].flow_status.modules[i + 1].type = "WaitingForEvents"
                     /\ queue'[f].flow_status.modules[i + 1].count
                            = queue'[f].raw_flow.modules[i].suspend
                     /\ queue'[f].flow_status.modules[i + 1].job
                            = queue'[f].flow_status.modules[i].job
                     /\ Parks(f)
                        => /\ queue'[f].suspend
                                = queue'[f].raw_flow.modules[i].suspend
                                  - ReceivedIn(resume_job',
                                               queue'[f].flow_status.modules[i].job)
                           /\ queue'[f].suspend_until
                           /\ nextId' = nextId]_vars

\* a flow is parked for two events of which one has arrived
C13_Witness ==
    \E f \in QueuedFlows :
        /\ Parked(f)
        /\ queue[f].flow_status.step >= 1
        /\ Gated(f, queue[f].flow_status.step)
        /\ queue[f].suspend = 1
        /\ queue[f].flow_status.modules[queue[f].flow_status.step + 1].count = 2

\* the events a parked flow still waits for
Outstanding(required_events, rows) ==
    IF rows >= required_events THEN 0 ELSE required_events - rows

\* C14: with the resume delivery under the same row lock as the gate, a
\* flow committed as WaitingForEvents has suspend equal to the required
\* events less the committed resume rows of the previous job, and suspend
\* is 0 once the required rows exist
C14_NoResumeLost ==
    (gate.queued /\ gate.status = "WaitingForEvents")
    => gate.suspend = Outstanding(gate.required_events, gate.rows)

\* a flow parked with one of two events counted by the gate has received
\* the other from a delivery that came after the suspension
C14_Witness ==
    /\ gate.queued
    /\ gate.status = "WaitingForEvents"
    /\ gate.required_events = 2
    /\ gate.received = 1
    /\ gate.rows = 2
    /\ gate.suspend = 0

\* the same count on the rows of the queue: a flow that waits for the
\* events of a job has suspend equal to the events still outstanding
C14_SuspendCountsRows ==
    \A f \in QueuedFlows :
        LET status == queue[f].flow_status IN
        (status.step < Len(status.modules)
         /\ status.modules[status.step + 1].type = "WaitingForEvents")
        => queue[f].suspend
             = Outstanding(status.modules[status.step + 1].count,
                           Received(status.modules[status.step + 1].job))

\* C15: the planner invoked on a flow whose active module is already
\* WaitingForEvents, with fewer resume rows than required, enqueues no job,
\* leaves the failure module unrun and completes the flow with
\* success = false, skipped = false, the logs "Timed out waiting to be
\* resumed" and the result {"error": logs}
C15_TimeoutCompletesFlow ==
    [][\A j \in 1..MaxJobs :
          (Parked(j) /\ WakeFlow(j))
          => /\ nextId' = nextId
             /\ DOMAIN queue' = DOMAIN queue \ {j}
             /\ DOMAIN completed' = DOMAIN completed \cup {j}
             /\ ~completed'[j].success
             /\ ~completed'[j].skipped
             /\ completed'[j].logs = "Timed out waiting to be resumed"
             /\ completed'[j].result = TimedOutResult
             /\ completed'[j].flow_status.failure_module
                    = queue[j].flow_status.failure_module
             /\ queue[j].flow_status.failure_module.type = "WaitingForPriorSteps"]_vars

\* a flow that has a failure module timed out at the gate, and its failure
\* module has not run
C15_Witness ==
    \E j \in CompletedFlows :
        /\ completed[j].logs = "Timed out waiting to be resumed"
        /\ ~completed[j].success
        /\ IsSome(completed[j].raw_flow.failure_module)
        /\ completed[j].flow_status.failure_module.type = "WaitingForPriorSteps"
        /\ Launched(j, Len(completed[j].raw_flow.modules)) = {}

\* the flow j waits for events that have all arrived
Resumable(j) ==
    /\ j \in QueuedFlows
    /\ queue[j].flow_status.step >= 1
    /\ queue[j].flow_status.step < Len(queue[j].flow_status.modules)
    /\ queue[j].flow_status.modules[queue[j].flow_status.step + 1].type
          = "WaitingForEvents"
    /\ IsSome(needs_resume(queue[j].raw_flow, queue[j].flow_status))
    /\ Received(Unwrap(needs_resume(queue[j].raw_flow, queue[j].flow_status)).job)
          >= Unwrap(needs_resume(queue[j].raw_flow, queue[j].flow_status)).required_events

\* the gated module of j was planned by the step: the approvers of all the
\* rows are on the previous module in the order of the rows, and one job
\* was pushed for the gated module
PlannedAfterResume(j, last) ==
    /\ Row(j)'.flow_status.modules[queue[j].flow_status.step].approvers
          = Approvers(resume_job[last])
    /\ nextId' = nextId + 1
    /\ nextId \in DOMAIN queue'
    /\ queue'[nextId].parent_job = j
    /\ queue'[nextId].step = queue[j].flow_status.step

\* C16: a flow that waits for events, pulled when enough resume rows are
\* present, gets the approvers of all the rows written to modules[step - 1]
\* and its gated module planned in the same call, with the arguments built
\* from the previous job's result in completed_job
C16_ResumedModulePlanned ==
    [][\A j \in 1..MaxJobs :
          (Resumable(j) /\ WakeFlow(j))
          => /\ PlannedAfterResume(j,
                    Unwrap(needs_resume(queue[j].raw_flow, queue[j].flow_status)).job)
             /\ queue'[nextId].kind = "script"
                  => queue'[nextId].args.a
                       = <<flatten_previous_result(
                            completed[Unwrap(needs_resume(queue[j].raw_flow,
                                        queue[j].flow_status)).job].result)>>]_vars

\* the part of C16 about a gated module that is a script
C16_ResumedScriptPlanned ==
    [][\A j \in 1..MaxJobs :
          (/\ Resumable(j)
           /\ queue[j].raw_flow.modules[queue[j].flow_status.step + 1].kind = "script"
           /\ WakeFlow(j))
          => /\ PlannedAfterResume(j,
                    Unwrap(needs_resume(queue[j].raw_flow, queue[j].flow_status)).job)
             /\ queue'[nextId].args.a
                  = <<flatten_previous_result(
                       completed[Unwrap(needs_resume(queue[j].raw_flow,
                                   queue[j].flow_status)).job].result)>>]_vars

\* the status entry of the module at index i: past the modules, the entry
\* of the failure module
StatusAt(f, i) ==
    IF i < Len(Row(f).raw_flow.modules) /\ i < Len(Row(f).flow_status.modules)
    THEN Row(f).flow_status.modules[i + 1]
    ELSE Row(f).flow_status.failure_module

\* the index of the module a jump was taken for: the snapshot of a jump
\* holds the step written, which is past the modules for the failure module
JumpedFor(f, h) ==
    IF h.step >= Len(Row(f).raw_flow.modules) THEN Len(Row(f).raw_flow.modules)
    ELSE h.at

\* what an empty for-each at index i of the flow f leaves
EmptyForEachDone(f, i) ==
    /\ Launched(f, i) = {}
    /\ StatusAt(f, i).type = "Success"
    /\ StatusAt(f, i).flow_jobs = Some(<<>>)
    /\ i + 1 < Len(Row(f).raw_flow.modules)
       => /\ StatusAt(f, i + 1).type /= "WaitingForPriorSteps"
          /\ \A c \in Launched(f, i + 1) :
                Row(c).kind = "script" => Row(c).args.a = <<EmptyArray>>
    /\ i + 1 >= Len(Row(f).raw_flow.modules)
       => /\ f \in DOMAIN completed
          /\ completed[f].success
          /\ completed[f].result = EmptyArray
          /\ completed[f].logs = "Forloop completed without iteration"

\* the jumps taken for a for-each of the flow f, as indexes into its history
ForEachJumps(f) ==
    {k \in 1..Len(Row(f).history) :
        /\ Row(f).history[k].by = "jump"
        /\ IsSome(ModuleAt(f, JumpedFor(f, Row(f).history[k])))
        /\ Unwrap(ModuleAt(f, JumpedFor(f, Row(f).history[k]))).kind = "forloop"}

\* C17: a for-each whose iterator is empty launches no child, is recorded
\* as Success with flow_jobs = [], has the next module planned with
\* last_result = [], and when it is the last module the flow terminates
\* with success = true, result = [] and the logs "Forloop completed without
\* iteration"
C17_EmptyForEach ==
    \A f \in FlowIds :
        \A k \in ForEachJumps(f) :
            EmptyForEachDone(f, JumpedFor(f, Row(f).history[k]))

\* the part of C17 about a for-each in the sequence of the modules
C17_EmptyForEachInSequence ==
    \A f \in FlowIds :
        \A k \in ForEachJumps(f) :
            JumpedFor(f, Row(f).history[k]) < Len(Row(f).raw_flow.modules)
            => EmptyForEachDone(f, JumpedFor(f, Row(f).history[k]))

\* the value is an object that contains the key previous_result
HasPreviousResult(v) == v.t = "object" /\ v.a /= <<>>

\* the previous_result of the flatten law
Flattened(v) == IF HasPreviousResult(v) THEN v.a[1] ELSE v

\* C18 as stated: every expression the driver evaluates sees the flattened
\* last_result as previous_result
C18_FlattenLaw ==
    eval.site /= "none" => eval.previous_result = Flattened(eval.v)

\* C18 amended: an input transform sees the flattened last_result as
\* previous_result; a for-each iterator, a branch-one predicate and a
\* stop_after_if see the value itself
C18_FlattenInInputTransforms ==
    /\ eval.site = "input_transform" => eval.previous_result = Flattened(eval.v)
    /\ eval.site \in {"iterator", "branch_predicate", "stop_after_if"}
       => eval.previous_result = eval.v

\* an input transform was evaluated on an object that has the key
C18_Witness ==
    /\ eval.site = "input_transform"
    /\ HasPreviousResult(eval.v)
    /\ eval.previous_result = eval.v.a[1]
    /\ eval.previous_result /= eval.v

\* C19: in every persisted flow_status the modules are as many as the
\* modules of the flow's definition
C19_ModulesLength ==
    \A f \in FlowIds :
        Len(Row(f).flow_status.modules) = Len(Row(f).raw_flow.modules)

\* the children a for-each or a branch-all launches: one for every
\* iteration or branch
Iterations(m) == IF m.kind = "forloop" THEN m.iterator ELSE Len(m.branches)

\* the list holds jobs in the order of their launch, none of them twice
InLaunchOrder(jobs) ==
    \A a \in 1..Len(jobs) : \A b \in 1..Len(jobs) : a < b => jobs[a] < jobs[b]

\* the jobs of the list are the children of the current attempt: every
\* other child launched for the module is of an earlier attempt, and a
\* module without retries has no other child
OfCurrentAttempt(jobs, launched, module) ==
    /\ Range(jobs) \subseteq launched
    /\ \A j \in launched \ Range(jobs) : \A k \in 1..Len(jobs) : j < jobs[k]
    /\ module.retry.attempts = 0 => Range(jobs) = launched
    /\ Len(jobs) = Iterations(module)

\* C20: a for-each or a branch-all enters Success only when every child it
\* launched has completed, and Success.flow_jobs then lists the children of
\* the current attempt, one for every iteration or branch, in launch order
C20_CompositeSuccess ==
    [][\A c \in calls' \ calls :
          (c.wrote.type = "Success" /\ IsSome(c.wrote.flow_jobs))
          => /\ Launched(c.flow, c.step)' \subseteq DOMAIN completed'
             /\ InLaunchOrder(Unwrap(c.wrote.flow_jobs))
             /\ IsSome(ModuleAt(c.flow, c.step)')
             /\ OfCurrentAttempt(Unwrap(c.wrote.flow_jobs), Launched(c.flow, c.step)',
                                 Unwrap(ModuleAt(c.flow, c.step)'))]_vars

\* a for-each of two iterations became Success with both of its children
C20_Witness ==
    \E c \in calls :
        /\ c.wrote.type = "Success"
        /\ IsSome(c.wrote.flow_jobs)
        /\ Len(Unwrap(c.wrote.flow_jobs)) = 2
        /\ IsSome(c.before.iterator)
        /\ Range(Unwrap(c.wrote.flow_jobs)) = Launched(c.flow, c.step)

\* the committed reconciliations whose planning of the next step failed
FailedChaining == {c \in calls : c.continue /\ c.done}

\* a reconciliation of flow p for its child f was committed
ReconciledFor(p, f) == \E c \in calls : c.flow = p /\ c.child = f

\* job j was launched by flow f or by a flow under f
RECURSIVE Under(_, _)
Under(j, f) ==
    /\ j \in Jobs
    /\ Row(j).parent_job /= NilJob
    /\ Row(j).parent_job = f \/ Under(Row(j).parent_job, f)

\* C21: when the planning of the next step fails after a child completed,
\* the reconciler does not return that error: the flow is completed as
\* failed with the logs "Unexpected error during flow chaining", and a flow
\* that has a parent is reported to the reconciler of its parent, whose own
\* error is the only one the call can return
C21_ChainingErrorCompletesFlow ==
    \A c \in FailedChaining :
        /\ c.flow \in DOMAIN completed
        /\ ~completed[c.flow].success
        /\ completed[c.flow].logs = "Unexpected error during flow chaining"
        /\ [op |-> "complete", job |-> c.child] \in errors
           => /\ completed[c.flow].parent_job /= NilJob
              /\ ~ReconciledFor(completed[c.flow].parent_job, c.flow)
        /\ completed[c.flow].parent_job /= NilJob
           => \/ ReconciledFor(completed[c.flow].parent_job, c.flow)
              \/ \E e \in errors :
                    /\ e.op = "complete"
                    /\ e.job = c.child \/ Under(e.job, c.child)

\* the planning failed in an inner flow, which was reported to its parent
C21_Witness ==
    \E c \in FailedChaining :
        /\ c.success
        /\ c.wrote.type = "Success"
        /\ c.flow \in DOMAIN completed
        /\ completed[c.flow].parent_job /= NilJob
        /\ \E p \in calls : p.flow = completed[c.flow].parent_job /\ p.child = c.flow

\* the job j is the running child of the active module of a queued flow,
\* and the stop_after_if of that module does not evaluate to a boolean
UnderBadStopAfterIf(j) ==
    /\ j \in DOMAIN queue
    /\ queue[j].kind = "script"
    /\ queue[j].parent_job \in DOMAIN queue
    /\ LET flow_job == queue[queue[j].parent_job] IN
       /\ flow_job.flow_status.step < Len(flow_job.raw_flow.modules)
       /\ flow_job.raw_flow.modules[flow_job.flow_status.step + 1].stop = "bad"

\* C22: when the stop_after_if of a module does not evaluate to a boolean
\* after its child succeeded, the flow is completed as failed and does not
\* stay in the queue
C22_BadStopAfterIfCompletesFlow ==
    [][\A j \in 1..MaxJobs :
          (UnderBadStopAfterIf(j) /\ CompleteJob(j, TRUE, FALSE))
          => /\ queue[j].parent_job \notin DOMAIN queue'
             /\ queue[j].parent_job \in DOMAIN completed'
             /\ ~completed'[queue[j].parent_job].success]_vars

\* the flow_status with only the job and the type of its active module set:
\* modules[step] while step is within the modules, failure_module otherwise
Patched(status, child) ==
    IF status.step < Len(status.modules)
    THEN [status EXCEPT
            !.modules = [k \in 1..Len(status.modules) |->
                            IF k = status.step + 1
                            THEN [status.modules[k] EXCEPT !.job = child,
                                                           !.type = "InProgress"]
                            ELSE status.modules[k]]]
    ELSE [status EXCEPT
            !.failure_module = [status.failure_module EXCEPT !.job = child,
                                                            !.type = "InProgress"]]

\* the job j of a queued flow is pulled and stays in the queue
PulledUnderFlow(j) ==
    /\ j \in DOMAIN queue
    /\ queue[j].parent_job \in DOMAIN queue
    /\ StartScript(j) \/ StartFlow(j)
    /\ j \in DOMAIN queue'

\* C23: update_flow_status_in_progress sets the job and the type of the
\* active module status to the child and InProgress and leaves step, retry,
\* the other module statuses and the other fields of the active one as
\* they are
C23_InProgressFrame ==
    [][\A j \in 1..MaxJobs :
          PulledUnderFlow(j)
          => /\ queue[j].parent_job \in DOMAIN queue'
             /\ queue'[queue[j].parent_job].flow_status
                  = Patched(queue[queue[j].parent_job].flow_status, j)]_vars

\* an inner flow of the second iteration of a for-each runs: the marker was
\* written on a status that holds an iterator and two flow_jobs
C23_Witness ==
    \E j \in QueuedFlows :
        /\ queue[j].running
        /\ queue[j].parent_job \in DOMAIN queue
        /\ LET m == StatusAt(queue[j].parent_job,
                              queue[queue[j].parent_job].flow_status.step) IN
           /\ m.type = "InProgress"
           /\ m.job = j
           /\ IsSome(m.iterator)
           /\ IsSome(m.flow_jobs)
           /\ Len(Unwrap(m.flow_jobs)) = 2

\* what a committed reconciliation c had before it: whether the failure of
\* the child is skipped, whether the module has a retry left, whether the
\* flow has a failure module, and whether the step after it is no module
SkipsFailure(c) ==
    /\ c.before.type = "InProgress"
    /\ \/ /\ IsSome(c.before.iterator)
          /\ compute_skip_loop_failures(Row(c.flow), c.step)
       \/ /\ IsSome(c.before.branchall)
          /\ compute_skip_branchall_failure(Row(c.flow), c.step,
                                            Unwrap(c.before.branchall).branch)
RetryAvailable(c) ==
    IsSome(next_retry(module_retry(Row(c.flow).raw_flow, c.step), c.retry))
FailureModuleDefined(c) == IsSome(Row(c.flow).raw_flow.failure_module)
AtLastStep(c) == (IF c.wrote.type = "Success" THEN c.step + 1 ELSE c.step) >= c.len

\* the cases in which the flow does not go on
Terminal(c) ==
    \/ c.stop_early
    \/ c.canceled
    \/ ~c.success /\ c.unrecoverable
    \/ ~c.success /\ ~SkipsFailure(c) /\ ~RetryAvailable(c) /\ ~FailureModuleDefined(c)
    \/ (c.success \/ SkipsFailure(c)) /\ AtLastStep(c)

StatusesOf(f) == Range(Row(f).flow_status.modules) \cup {Row(f).flow_status.failure_module}
WithIterator(m) == m.type = "InProgress" /\ IsSome(m.iterator)
AtLastIndex(m) == Unwrap(m.iterator).index + 1 = Len(Unwrap(m.iterator).itered)

\* C25: every stored InProgress status with an iterator has
\* 0 <= index < itered.len(), and the completion of the iteration at the
\* last index takes the module out of InProgress
C25_IteratorIndexInRange ==
    /\ \A f \in Jobs : \A m \in StatusesOf(f) :
          WithIterator(m)
          => /\ 0 <= Unwrap(m.iterator).index
             /\ Unwrap(m.iterator).index < Len(Unwrap(m.iterator).itered)
    /\ \A c \in calls :
          (WithIterator(c.before) /\ AtLastIndex(c.before))
          => c.wrote.type \in {"Success", "Failure"}

\* the second and last iteration of a for-each completed and the module
\* became Success
C25_Witness ==
    \E c \in calls :
        /\ WithIterator(c.before)
        /\ Unwrap(c.before.iterator).index = 1
        /\ AtLastIndex(c.before)
        /\ c.wrote.type = "Success"

Composite(module) == module.kind \in {"forloop", "branchone", "branchall"}

\* the status m holds the one field of the module's kind and no other
OneFieldOfKind(m, module) ==
    /\ IsSome(m.iterator) <=> module.kind = "forloop"
    /\ IsSome(m.branchall) <=> module.kind = "branchall"
    /\ IsSome(m.branch_chosen) <=> module.kind = "branchone"

\* the stored statuses of flow f paired with the modules they belong to
StatusesWithModules(f) ==
    {<<Row(f).flow_status.modules[k], Row(f).raw_flow.modules[k]>> :
        k \in DOMAIN Row(f).flow_status.modules \cap DOMAIN Row(f).raw_flow.modules}
    \cup {<<Row(f).flow_status.failure_module, module>> :
            module \in Range(Row(f).raw_flow.failure_module)}

\* C26: every stored InProgress status of a for-each, branch-one or
\* branch-all module has exactly one of iterator, branchall and
\* branch_chosen set, the one of the module's kind
C26_OneCompositeField ==
    \A f \in Jobs : Row(f).kind = "flow" =>
        \A p \in StatusesWithModules(f) :
            (p[1].type = "InProgress" /\ Composite(p[2])) => OneFieldOfKind(p[1], p[2])

\* an inner flow of a branch-one runs: the planner wrote the status and the
\* worker patched it
C26_Witness ==
    \E j \in QueuedFlows :
        /\ queue[j].running
        /\ queue[j].parent_job \in DOMAIN queue
        /\ \E p \in StatusesWithModules(queue[j].parent_job) :
              /\ p[1].type = "InProgress" /\ p[1].job = j
              /\ p[2].kind = "branchone"
              /\ IsSome(p[1].branch_chosen)

\* the reconciliations of the completion of a for-each iteration
IterationCompletions == {c \in calls : WithIterator(c.before)}
IndexOf(c) == Unwrap(c.before.iterator).index
LengthOf(c) == Len(Unwrap(c.before.iterator).itered)
SkipsLoopFailures(c) == compute_skip_loop_failures(Row(c.flow), c.step)

\* job j is the inner flow of flow f for the iteration at index k of the
\* for-each at step i
IsIteration(j, f, i, k) ==
    /\ j \in Jobs
    /\ Row(j).kind = "flow"
    /\ Row(j).parent_job = f
    /\ Row(j).step = i
    /\ Row(j).args.n = k + 1

\* the completion c of an iteration before the last one keeps the module
\* status as it is and, unless the flow stops, pushes the next iteration
NextIterationFollows(c) ==
    (IndexOf(c) + 1 < LengthOf(c) /\ (c.success \/ SkipsLoopFailures(c)))
    => /\ c.wrote = c.before
       /\ (~c.stop_early /\ ~c.canceled)
          => /\ c.continue
             /\ IsIteration(c.at, c.flow, c.step, IndexOf(c) + 1)
             /\ c.done => SendFailed(c.at)

\* the completion c of a failed iteration whose failure is not skipped
\* makes the module a Failure and pushes no next iteration
FailedIterationEndsLoop(c) ==
    (~c.success /\ ~SkipsLoopFailures(c))
    => /\ c.wrote.type = "Failure"
       /\ ~IsIteration(c.at, c.flow, c.step, IndexOf(c) + 1)

\* the successful completion c of the last iteration: n inner flows were
\* launched, the k-th for index k, each after the one before it completed
AllIterationsLaunched(c) ==
    (c.wrote.type = "Success" /\ IsSome(c.before.flow_jobs))
    => LET jobs == Unwrap(c.before.flow_jobs) IN
       /\ Len(jobs) = LengthOf(c)
       /\ \A k \in 1..Len(jobs) : IsIteration(jobs[k], c.flow, c.step, k - 1)
       /\ \A k \in 1..(Len(jobs) - 1) :
             \E d \in calls : /\ d.flow = c.flow /\ d.child = jobs[k]
                               /\ d.at = jobs[k + 1]

BranchCompletions ==
    {c \in calls : c.before.type = "InProgress" /\ IsSome(c.before.branchall)}
BranchOf(c) == Unwrap(c.before.branchall).branch
BranchesOf(c) == Unwrap(c.before.branchall).len
SkipsBranchFailure(c) == compute_skip_branchall_failure(Row(c.flow), c.step, BranchOf(c))

\* job j is the inner flow of flow f for branch b of the branch-all module
\* at step i, started with the previous_result p
IsBranch(j, f, i, module, b, p) ==
    /\ j \in Jobs
    /\ Row(j).kind = "flow"
    /\ Row(j).parent_job = f
    /\ Row(j).step = i
    /\ Row(j).raw_flow.modules = module.branches[b + 1].modules
    /\ Row(j).args.a = <<flatten_previous_result(p)>>

\* the branches of a branch-all in progress: one inner flow per branch up
\* to the current one, launched in the order of the branches with the same
\* previous_result, all but the last completed
BranchesInOrder(f, i, m) ==
    LET ba == Unwrap(m.branchall)
        jobs == Unwrap(m.flow_jobs)
    IN  /\ IsSome(m.flow_jobs)
        /\ ba.len = Len(Row(f).raw_flow.modules[i + 1].branches)
        /\ ba.branch < ba.len
        /\ Len(jobs) = ba.branch + 1
        /\ m.job = jobs[Len(jobs)]
        /\ \A k \in 1..Len(jobs) :
              /\ IsBranch(jobs[k], f, i, Row(f).raw_flow.modules[i + 1], k - 1,
                          ba.previous_result)
              /\ k < Len(jobs) => jobs[k] \in DOMAIN completed /\ jobs[k] < jobs[k + 1]

\* what the completion c of a branch makes of the module
BranchCompletionRule(c) ==
    /\ (BranchOf(c) < BranchesOf(c) - 1 /\ (c.success \/ SkipsBranchFailure(c)))
       => /\ c.wrote = c.before
          /\ (~c.stop_early /\ ~c.canceled)
             => /\ c.continue /\ ~c.done
                /\ IsBranch(c.at, c.flow, c.step, Row(c.flow).raw_flow.modules[c.step + 1],
                            BranchOf(c) + 1, Unwrap(c.before.branchall).previous_result)
    /\ (BranchOf(c) = BranchesOf(c) - 1 /\ (c.success \/ SkipsBranchFailure(c)))
       => c.wrote.type = "Success"
    /\ (~c.success /\ ~SkipsBranchFailure(c))
       => /\ c.wrote.type = "Failure"
          /\ ~(c.at \in Jobs /\ Row(c.at).parent_job = c.flow /\ Row(c.at).step = c.step)

FirstTrue(branches) ==
    LET true == {k \in DOMAIN branches : branches[k].expr = "true"} IN
    IF true = {} THEN BranchDefault
    ELSE BranchChosen((CHOOSE k \in true : \A l \in true : k <= l) - 1)

ModulesOfChoice(module, choice) ==
    IF choice = BranchDefault THEN module.default
    ELSE module.branches[choice.branch + 1].modules

\* the branch-one modules of the stored flows, as pairs of flow and index
BranchOnes ==
    {p \in Jobs \X (0..1) :
        /\ Row(p[1]).kind = "flow"
        /\ p[2] < Len(Row(p[1]).raw_flow.modules)
        /\ Row(p[1]).raw_flow.modules[p[2] + 1].kind = "branchone"}

\* the branch-one at index i of flow f, once planned: the choice recorded is
\* the one to take, one inner flow made of its modules was launched, and a
\* status that is final holds the same choice
BranchOnePlanned(f, i, module, m) ==
    /\ m.type = "WaitingForPriorSteps" => Launched(f, i) = {}
    /\ m.type \in {"InProgress", "Success", "Failure"}
       => /\ m.branch_chosen = Some(FirstTrue(module.branches))
          /\ Launched(f, i) = {m.job}
          /\ Row(m.job).kind = "flow"
          /\ Row(m.job).raw_flow.modules
                = ModulesOfChoice(module, FirstTrue(module.branches))

\* the flow j is pulled with its events received while its active module,
\* a branch-one, is not WaitingForPriorSteps
BranchOneResumed(j) ==
    /\ Resumable(j)
    /\ queue[j].raw_flow.modules[queue[j].flow_status.step + 1].kind = "branchone"
    /\ WakeFlow(j)

\* C29: a branch-one planned from WaitingForPriorSteps takes the first
\* branch whose predicate is true, the default if no predicate is true or
\* there is no branch; one inner flow is launched from the modules of the
\* choice, which is recorded as branch_chosen and kept in the Success or
\* Failure status; planning it from another status is an error
C29_BranchOneChoice ==
    [][/\ \A p \in BranchOnes' :
             BranchOnePlanned(p[1], p[2], Row(p[1]).raw_flow.modules[p[2] + 1],
                              StatusAt(p[1], p[2]))'
       /\ \A c \in calls' :
             (c.before.type = "InProgress" /\ IsSome(c.before.branch_chosen))
             => /\ c.wrote.type \in {"Success", "Failure"}
                /\ c.wrote.branch_chosen = c.before.branch_chosen
       /\ \A j \in 1..MaxJobs :
             BranchOneResumed(j)
             => /\ [op |-> "wake", job |-> j] \in errors'
                /\ nextId' = nextId
                /\ StatusAt(j, queue[j].flow_status.step)'.type = "WaitingForEvents"]_vars

\* the reconciliations of a failed child of a module of the modules array
\* that has no retry left, in a flow with a failure module that goes on
FailureModuleEntries ==
    {c \in calls :
        /\ ~c.success /\ ~c.unrecoverable /\ ~c.canceled /\ ~c.stop_early
        /\ c.step < Len(Row(c.flow).raw_flow.modules)
        /\ c.wrote.type = "Failure"
        /\ ~RetryAvailable(c)
        /\ FailureModuleDefined(c)}

\* what the entry c into the failure module leaves: the step is past the
\* modules, the job pushed is the failure module's, whose status is in
\* failure_module, every later child is the failure module's too, and the
\* failed module keeps its Failure
InFailureModule(c) ==
    LET len == Len(Row(c.flow).raw_flow.modules) IN
    /\ Row(c.flow).flow_status.step >= len
    /\ c.at \in Jobs
    /\ Row(c.at).parent_job = c.flow
    /\ Row(c.at).step = len
    /\ Row(c.flow).flow_status.failure_module.type /= "WaitingForPriorSteps"
    /\ \A j \in ChildrenOf(c.flow) : j >= c.at => Row(j).step = len
    /\ Row(c.flow).flow_status.modules[c.step + 1].type = "Failure"
    /\ Row(c.flow).flow_status.modules[c.step + 1].job = c.child

\* C30: when the module at step k fails with no retry left and the flow
\* has a failure module, the step becomes modules.len(), the failure module
\* is launched with its status in failure_module, no module of the modules
\* array is launched for the flow afterwards and modules[k] stays Failure
C30_FailureModulePhase == \A c \in FailureModuleEntries : InFailureModule(c)

\* the reconciliations in cs that end in the retry of the failed module
Retries(cs) ==
    {c \in cs : /\ ~c.success /\ c.continue /\ ~c.done
                /\ c.wrote.type = "Failure"
                /\ RetryAvailable(c)}

\* what the retry c leaves in the rows, given as q: the retry status with
\* the failed child and one more failure, the module planned anew under
\* its id, and the new child c.at with its delay and its arguments
RetriedIn(q, c) ==
    LET module == Unwrap(active_module(q[c.flow].raw_flow, c.step))
        status == q[c.flow].flow_status
        m == IF c.step < Len(status.modules) THEN status.modules[c.step + 1]
             ELSE status.failure_module
    IN  /\ status.retry.failed_jobs = Append(c.retry.failed_jobs, c.child)
        /\ status.retry.fail_count = c.retry.fail_count + 1
        /\ status.retry.previous_result = c.retry.previous_result
        /\ m.id = c.before.id
        /\ m.job = c.at
        /\ module.kind = "script" => m.type = "WaitingForExecutor"
        /\ module.kind = "forloop"
           => /\ m.type = "InProgress"
              /\ Unwrap(m.iterator).index = 0
              /\ m.flow_jobs = Some(<<c.at>>)
        /\ c.at \in DOMAIN q
        /\ q[c.at].parent_job = c.flow
        /\ q[c.at].scheduled_for = Some(Min(module.retry.seconds, MAX_RETRY_INTERVAL))
        /\ IsSome(c.retry.previous_result)
        /\ module.kind = "script"
           => q[c.at].args.a
                = <<flatten_previous_result(Unwrap(c.retry.previous_result))>>

\* C31: the retry of a failed module appends the failed child to
\* retry.failed_jobs and adds one to fail_count, plans the module again as
\* from WaitingForPriorSteps under the same id (a for-each from index 0
\* with no flow_jobs), schedules the new child after the delay, and takes
\* its arguments from the previous_result saved at the module's first
\* start, not from the result of the failed child
C31_RetryReplans ==
    [][\A c \in Retries(calls' \ calls) : RetriedIn(queue', c)]_vars

\* C32: next_retry yields Some(fail_count + 1, d) exactly when fail_count
\* is at most MAX_RETRY_ATTEMPTS and the policy has an interval for
\* fail_count, None otherwise; d is the smaller of that interval and
\* MAX_RETRY_INTERVAL; its arguments stay as they are
C32_NextRetry ==
    retry_eval.called
    => /\ IsSome(retry_eval.out)
          <=> /\ retry_eval.state.fail_count <= MAX_RETRY_ATTEMPTS
              /\ IsSome(RetryInterval(retry_eval.cfg, retry_eval.state.fail_count))
       /\ IsSome(retry_eval.out)
          => /\ Unwrap(retry_eval.out).fail_count = retry_eval.state.fail_count + 1
             /\ Unwrap(retry_eval.out).retry_in <= MAX_RETRY_INTERVAL
             /\ Unwrap(retry_eval.out).retry_in
                  <= Unwrap(RetryInterval(retry_eval.cfg, retry_eval.state.fail_count))
             /\ Unwrap(retry_eval.out).retry_in
                  \in {Unwrap(RetryInterval(retry_eval.cfg, retry_eval.state.fail_count)),
                       MAX_RETRY_INTERVAL}
       /\ retry_eval.state \in RetryStates
       /\ retry_eval.cfg \in RetryPolicies

\* a retry was granted for a policy whose interval is longer than
\* MAX_RETRY_INTERVAL
C32_Witness ==
    /\ retry_eval.called
    /\ IsSome(retry_eval.out)
    /\ retry_eval.cfg.seconds > MAX_RETRY_INTERVAL
    /\ Unwrap(retry_eval.out).retry_in = MAX_RETRY_INTERVAL

\* the reconciliations that were given no stop_early_override
LocalDecisions == {c \in calls : IsNone(c.override)}

\* the stop_after_if of the module c was about holds
StopsAfter(c) ==
    /\ c.step < c.len
    /\ IsSome(ModuleAt(c.flow, c.step))
    /\ Unwrap(ModuleAt(c.flow, c.step)).stop = "true"

\* C33: without an override the flow stops early only after a child that
\* succeeded, outside the failure-module phase, on a stop_after_if that
\* holds; a flow that stops early is completed, pushes no job, and its
\* completed-job record has skipped = skip_if_stopped and the logs of a
\* flow stopped early
C33_StopEarlyOnlyOnSuccess ==
    /\ \A c \in LocalDecisions :
          /\ c.stop_early <=> (c.success /\ StopsAfter(c))
          /\ c.stop_early
             => c.skip_if_stop_early = Unwrap(ModuleAt(c.flow, c.step)).skip_if_stopped
    /\ \A c \in calls :
          c.stop_early
          => /\ ~c.continue /\ c.done
             /\ c.after = c.at
             /\ c.flow \in DOMAIN completed
             /\ ~c.canceled
                => /\ completed[c.flow].skipped = c.skip_if_stop_early
                   /\ completed[c.flow].success = c.success
                   /\ completed[c.flow].logs = "Flow job stopped early"

\* a script with stop_after_if and skip_if_stopped succeeded: the flow is
\* completed as skipped
C33_Witness ==
    \E c \in LocalDecisions :
        /\ c.stop_early /\ c.skip_if_stop_early
        /\ c.flow \in DOMAIN completed
        /\ completed[c.flow].skipped
        /\ completed[c.flow].logs = "Flow job stopped early"

\* the reconciliations in cs made in the failure-module phase with no
\* stop_early_override
FailurePhase(cs) == {c \in cs : c.step >= c.len /\ IsNone(c.override)}

\* C34: a child completion in the failure-module phase, with no
\* stop_early_override, leaves step and every entry of modules as they
\* are and writes the new status to failure_module
C34_FailurePhaseFrame ==
    [][\A c \in FailurePhase(calls' \ calls) :
          /\ Row(c.flow)'.flow_status.step = Row(c.flow).flow_status.step
          /\ Row(c.flow)'.flow_status.modules = Row(c.flow).flow_status.modules
          /\ (~c.continue \/ c.done)
             => Row(c.flow)'.flow_status.failure_module = c.wrote]_vars

\* the job of a failure module succeeded: failure_module is Success while
\* the failed module keeps its Failure and step is modules.len()
C34_Witness ==
    \E c \in FailurePhase(calls) :
        /\ c.success /\ c.wrote.type = "Success"
        /\ Row(c.flow).flow_status.failure_module = c.wrote
        /\ Row(c.flow).flow_status.step = Len(Row(c.flow).raw_flow.modules)
        /\ \E k \in DOMAIN Row(c.flow).flow_status.modules :
              Row(c.flow).flow_status.modules[k].type = "Failure"

\* the sends of the uuid j on the same-worker channel
SendsOf(j) == {k \in DOMAIN same_worker_tx.sends : same_worker_tx.sends[k].job = j}

\* the module of its flow that the child job j was launched for stays on
\* the worker: the flow asks for it and the module neither suspends nor sleeps
StaysOnWorker(j) ==
    /\ Row(Row(j).parent_job).raw_flow.same_worker
    /\ IsSome(ModuleAt(Row(j).parent_job, Row(j).step))
    /\ Unwrap(ModuleAt(Row(j).parent_job, Row(j).step)).suspend = 0
    /\ ~Unwrap(ModuleAt(Row(j).parent_job, Row(j).step)).sleep

\* C35: a child job has same_worker = true exactly when its flow has
\* same_worker and the module launched has neither suspend nor sleep; its
\* uuid is handed to the same-worker channel exactly once in that case and
\* never otherwise, each time after the row of the job and the status that
\* names it were committed; the parent_job of every child is its flow
C35_SameWorkerHandOff ==
    /\ \A j \in Jobs :
          IF Row(j).parent_job = NilJob
          THEN ~Row(j).same_worker /\ SendsOf(j) = {}
          ELSE /\ Row(j).parent_job \in FlowIds
               /\ Row(j).same_worker = StaysOnWorker(j)
               /\ Cardinality(SendsOf(j)) = IF StaysOnWorker(j) THEN 1 ELSE 0
    /\ \A k \in DOMAIN same_worker_tx.sends :
          /\ same_worker_tx.sends[k].job \in Jobs
          /\ same_worker_tx.sends[k].committed

\* a flow with same_worker launched a sleeping module's job, not handed
\* over, and then the job of its failure module, handed over
C35_Witness ==
    \E j \in Jobs, h \in Jobs :
        /\ Row(j).parent_job /= NilJob /\ Row(h).parent_job = Row(j).parent_job
        /\ Row(Row(j).parent_job).raw_flow.same_worker
        /\ Unwrap(ModuleAt(Row(j).parent_job, Row(j).step)).sleep
        /\ ~Row(j).same_worker /\ SendsOf(j) = {}
        /\ Row(h).same_worker /\ Cardinality(SendsOf(h)) = 1

\* the reconciliations of a flow made for a child that is itself a flow and
\* has its completed-job record
ReportedByFlows == {c \in calls : c.child \in CompletedFlows}

\* C36: the success reported to the parent flow equals the success of the
\* child flow's completed-job record, so that a canceled child flow or one
\* ended by an error of flow chaining is reported as failed
C36_ReportedSuccess ==
    \A c \in ReportedByFlows : c.success = completed[c.child].success

\* the reconciliations that ended their flow on the normal completion path:
\* the flow did not go on and was not canceled
NormalCompletions ==
    {c \in calls : c.done /\ ~c.continue /\ ~c.canceled /\ c.flow \in DOMAIN completed}

\* every entry of the flow's status.modules is Success
AllSuccess(f) ==
    \A k \in DOMAIN Row(f).flow_status.modules :
        Row(f).flow_status.modules[k].type = "Success"

\* C37: a flow that ends on the normal completion path with every entry of
\* status.modules in Success has a completed-job record with success = true,
\* also when the last iteration or branch of its last module failed and the
\* failure was skipped
C37_AllSuccessIsSuccess ==
    \A c \in NormalCompletions : AllSuccess(c.flow) => completed[c.flow].success

\* C38: once the completed-job record of a flow is written no child job of
\* the flow is in the queue, waiting or running, whatever the path that
\* wrote the record
C38_NoChildOutlivesFlow ==
    \A f \in CompletedFlows : \A j \in ChildrenOf(f) : j \in DOMAIN completed

\* the flows reconciled in the step that completes job j: the flow of j,
\* and the parent of every flow the step ended
ReportedTo(j) ==
    {f \in JobIds :
        \/ f = queue[j].parent_job
        \/ \E c \in calls' \ calls : c.done /\ Row(c.flow).parent_job = f}

\* the flow whose reconciliation returned the error: it was reconciled and
\* no reconciliation of it was committed
FailedCalls(j) == {f \in ReportedTo(j) : \A c \in calls' \ calls : c.flow /= f}

\* the step left nothing of flow f: its row is the same, no completed-job
\* record was written for it and none of the jobs enqueued is its child
Untouched(f) ==
    /\ f \in DOMAIN queue => (f \in DOMAIN queue' /\ queue'[f] = queue[f])
    /\ f \in DOMAIN completed' <=> f \in DOMAIN completed
    /\ f \in DOMAIN completed => completed'[f] = completed[f]
    /\ \A k \in DOMAIN queue' \ DOMAIN queue : queue'[k].parent_job /= f

\* C39: a reconciliation that returns an error before its commit leaves no
\* trace: the flow_status of its flow is as before, no child job of the
\* flow is enqueued and no completed-job record of the flow is written
C39_ErrorLeavesNoTrace ==
    [][\A j \in DOMAIN queue :
          [op |-> "complete", job |-> j] \in errors' \ errors
          => /\ FailedCalls(j) /= {}
             /\ \A f \in FailedCalls(j) : Untouched(f)]_vars

\* the reconciliation for a completed job returned an error under a
\* stop_after_if that is no boolean: the flow is queued with the job still
\* in progress in its status
C39_Witness ==
    \E e \in errors :
        /\ e.op = "complete" /\ e.job \in DOMAIN completed
        /\ completed[e.job].parent_job \in DOMAIN queue
        /\ Unwrap(ModuleAt(completed[e.job].parent_job, completed[e.job].step)).stop = "bad"
        /\ active_status_module(queue[completed[e.job].parent_job].flow_status).job = e.job
        /\ active_status_module(queue[completed[e.job].parent_job].flow_status).type
             = "InProgress"

\* the invocations of the schedule collaborator for flow f
ScheduledAgain(f) == {c \in calls : c.flow = f /\ c.schedule_again}

\* C40: over the whole run of a scheduled flow that is no step of another
\* flow the schedule collaborator is invoked exactly once, whatever the
\* first module is and however the flow ends
C40_ScheduledOnce ==
    \A f \in CompletedFlows :
        (~completed[f].is_flow_step /\ completed[f].schedule_path)
        => Cardinality(ScheduledAgain(f)) = 1

====
